---- MODULE Spec2Model ----
(***************************************************************************)
(* Model of modelmint_back: the remote training tools                      *)
(* (mcp_tools/training_model_tools.py) and the startup reconciliation of   *)
(* the shared SSH key (core/startup.py).                                   *)
(*                                                                         *)
(* SpecTrain: one call of train_model_with_llamafactory or stop_training,  *)
(*   stepped per external operation (temp file, scp, ssh).                 *)
(* SpecKeys : sequential runs of setup_ssh_keys_for_all_providers against  *)
(*   the provider accounts.                                                *)
(***************************************************************************)
EXTENDS Integers, Sequences, FiniteSets, TLC

(* ------------------------------ bounds --------------------------------- *)
\* longest machine list passed to a tool
MaxMachines == 3
\* number of startup runs (server starts) in one behaviour
MaxRuns == 2

VARIABLES
    \* ---- training tools: one tool call ----
    tool,              \* "none" | "launch" | "stop": the tool being called
    tpc,               \* position in the call: "idle" | "mk" | "scp" | "popen" | "kill" | "done"
    machine_ips,       \* argument machine_ips
    model_id,          \* argument model_id
    i,                 \* loop index (0-based, as enumerate gives it)
    results,           \* the results dict being built / returned
    tmpfiles,          \* local temporary files that exist
    config_file_path,  \* the temp file of the machine being processed
    ops,               \* external operations of this call, in order
    output_dir,        \* argument output_dir
    probes,            \* check_training_status: what the probes of this machine returned so far
    args,              \* train_model_with_llamafactory: the parameters of the call
    machine_config,    \* _execute_training_on_machine: the config serialized for the machine
    remote,            \* files on the machines: <<address, path>> -> config copied there
    procs,             \* ssh processes this call spawned and did not wait for: position -> state
    \* ---- startup reconciliation ----
    PROVIDERS,         \* registry: provider names in insertion order
    settings,          \* lambda_labs_api_key, common_ssh_key_name, common_ssh_public_key
    account,           \* provider name -> sequence of key records held remotely
    spc,               \* server -> "idle" | "resolve" | "list" | "add" | "done" | "crashed"
    sidx,              \* server -> position in PROVIDERS (1-based)
    visited,           \* server -> provider names the loop reached in this run
    calls,             \* server -> provider calls of this run, in order
    nruns,             \* runs started so far
    \* ---- provider client: one operation of LambdaLabsProvider ----
    pcall,             \* the operation called and its arguments
    http,              \* HTTP requests the call sent, with the response each got
    presult,           \* what the call returned or raised
    \* ---- config serializer: one call of _format_yaml_value ----
    yvalue,            \* the value to format
    ytext,             \* the text returned
    \* ---- directory naming: two positions of one machine list ----
    dquery,            \* base directory and the index and address of two positions
    dnames             \* the two derived directories

trainVars == <<tool, tpc, machine_ips, model_id, i, results, tmpfiles, config_file_path, ops,
               output_dir, probes, args, machine_config, remote, procs>>
keyVars   == <<PROVIDERS, settings, account, spc, sidx, visited, calls, nruns>>
provVars  == <<pcall, http, presult>>
yamlVars  == <<yvalue, ytext, dquery, dnames>>
vars      == <<tool, tpc, machine_ips, model_id, i, results, tmpfiles, config_file_path, ops,
               output_dir, probes, args, machine_config, remote, procs,
               PROVIDERS, settings, account, spc, sidx, visited, calls, nruns,
               pcall, http, presult, yvalue, ytext, dquery, dnames>>

(* ------------------------------ inputs --------------------------------- *)
Addresses == {"10.0.0.1", "10.0.0.2", "10.0.0.3"}
ModelIds  == {"", "org/model"}
MachineLists == UNION {[1..n -> Addresses] : n \in 0..MaxMachines}

EmptyDict == [k \in {} |-> k]
None == "<None>"

\* Python truthiness of an optional string (if not api_key, if template)
Falsy(v) == v \in {None, ""}

\* Python values, as far as the argument checks look at them
PyNone == [type |-> "none"]
PyStr(n) == [type |-> "str", len |-> n]
PyInt(n) == [type |-> "int", val |-> n]
PyList(items) == [type |-> "list", items |-> items]
PyDict(d) == [type |-> "dict", d |-> d]

\* truth value of a Python value (if not x)
Truthy(v) ==
    CASE v.type = "none" -> FALSE
      [] v.type = "str"  -> v.len > 0
      [] v.type = "int"  -> v.val # 0
      [] v.type = "list" -> Len(v.items) > 0
      [] v.type = "dict" -> DOMAIN v.d # {}

\* config.get(key, default)
DictGet(dict, key, default) == IF key \in DOMAIN dict.d THEN dict.d[key] ELSE default

\* keys already present keep their value
Update_KeepExisting(d, e) ==
    [k \in (DOMAIN d) \cup (DOMAIN e) |-> IF k \in DOMAIN d THEN d[k] ELSE e[k]]

\* d.update(e)
Update(d, e) ==
    [k \in (DOMAIN d) \cup (DOMAIN e) |-> IF k \in DOMAIN e THEN e[k] ELSE d[k]]

\* d[k] = v
Put(d, k, v) == [x \in (DOMAIN d) \cup {k} |-> IF x = k THEN v ELSE d[x]]

\* the machine at loop index idx (enumerate is 0-based, sequences 1-based)
MachineAt(idx) == machine_ips[idx + 1]

\* the characters of the strings whose text matters
TextOf(str) ==
    CASE str = "10.0.0.1" -> <<"1", "0", ".", "0", ".", "0", ".", "1">>
      [] str = "10.0.0.2" -> <<"1", "0", ".", "0", ".", "0", ".", "2">>
      [] str = "10.0.0.3" -> <<"1", "0", ".", "0", ".", "0", ".", "3">>
      [] str = "saves/trained_model" ->
            <<"s", "a", "v", "e", "s", "/", "t", "r", "a", "i", "n", "e", "d", "_",
              "m", "o", "d", "e", "l">>
      [] str = "saves/other" -> <<"s", "a", "v", "e", "s", "/", "o", "t", "h", "e", "r">>

DigitChars == <<"0", "1", "2", "3", "4", "5", "6", "7", "8", "9">>

\* str(value) of an int
RECURSIVE Decimal(_)
Decimal(n) ==
    IF n < 0 THEN <<"-">> \o Decimal(-n)
    ELSE IF n < 10 THEN <<DigitChars[n + 1]>>
    ELSE Decimal(n \div 10) \o <<DigitChars[(n % 10) + 1]>>

\* machine_ip.replace('.', '_')
ReplaceDots(chars) == [k \in 1..Len(chars) |-> IF chars[k] = "." THEN "_" ELSE chars[k]]

\* the position is left out of the name
DerivedDir_NoIndex(base, idx, address) ==
    base \o <<"_", "m", "a", "c", "h", "i", "n", "e", "_">> \o ReplaceDots(address)

\* f"{output_dir}_machine_{i}_{machine_ip.replace('.', '_')}", on characters
DerivedDir(base, idx, address) ==
    base \o <<"_", "m", "a", "c", "h", "i", "n", "e", "_">>
         \o Decimal(idx) \o <<"_">> \o ReplaceDots(address)

\* the derived directory of the machine ip at position idx
MachineOutputDir(dir, idx, ip) == DerivedDir(TextOf(dir), idx, TextOf(ip))

(* ------------------- train_model_with_llamafactory --------------------- *)
RemoteConfigPath(idx) == <<"/tmp/llamafactory_config_", idx, ".yaml">>

\* return value of the copy-failed branch
CopyFailedResult(ip) ==
    [success |-> FALSE, error |-> "Failed to copy config file",
     machine_ip |-> ip, step |-> "file_transfer"]

\* return value after a successful Popen
StartedResult(ip, idx) ==
    [success |-> TRUE, machine_ip |-> ip, config_file |-> RemoteConfigPath(idx),
     status |-> "training_started"]

\* the two except clauses of _execute_training_on_machine
ExceptResult(ip, exc) ==
    IF exc = "TimeoutExpired"
    THEN [success |-> FALSE, error |-> "SSH connection timeout",
          machine_ip |-> ip, step |-> "ssh_connection"]
    ELSE [success |-> FALSE, error |-> "Unexpected error",
          machine_ip |-> ip, step |-> "execution"]

\* the machine config is started empty instead of as a copy of the base config
Specialize_NotACopy(config, idx, ip) ==
    Put(EmptyDict, "output_dir", MachineOutputDir(config["output_dir"], idx, ip))

\* machine_config = config.copy(); machine_config["output_dir"] = machine_output_dir
Specialize(config, idx, ip) ==
    Put(config, "output_dir", MachineOutputDir(config["output_dir"], idx, ip))

\* a process started with Popen and not waited for
Spawned == [state |-> "spawned", config |-> EmptyDict]

\* finally: os.unlink(config_file_path), errors ignored
Unlink(files, path) == files \ {path}

\* the name NamedTemporaryFile gives the file of loop index idx (fresh per file)
TempName(idx) == idx

CountSuccess(n, rec) == IF rec.success THEN n + 1 ELSE n
CountFailure(n, rec) == IF rec.success THEN n ELSE n + 1

\* AND-semantics instead of OR-semantics
LaunchSuccess_AllMachines(successful) == successful = results.total_machines

\* results["success"] = results["successful_machines"] > 0
LaunchSuccess(successful) == successful > 0

\* the loop gives up at the first failed machine
StoreMachineResult_AbortOnFailure(rec) ==
    LET ip   == MachineAt(i)
        succ == CountSuccess(results.successful_machines, rec)
        fail == CountFailure(results.failed_machines, rec)
        last == i + 1 = Len(machine_ips) \/ ~rec.success
    IN  /\ results' = [results EXCEPT
                          !.machine_results = Put(@, ip, rec),
                          !.successful_machines = succ,
                          !.failed_machines = fail,
                          !.success = IF last THEN LaunchSuccess(succ) ELSE @]
        /\ i' = i + 1
        /\ tpc' = IF last THEN "done" ELSE "mk"

\* after the last machine the call waits for the training it started
StoreMachineResult_WaitForTraining(rec) ==
    LET ip   == MachineAt(i)
        succ == CountSuccess(results.successful_machines, rec)
        fail == CountFailure(results.failed_machines, rec)
        last == i + 1 = Len(machine_ips)
    IN  /\ results' = [results EXCEPT
                          !.machine_results = Put(@, ip, rec),
                          !.successful_machines = succ,
                          !.failed_machines = fail,
                          !.success = IF last THEN LaunchSuccess(succ) ELSE @]
        /\ i' = i + 1
        /\ tpc' = IF last THEN (IF succ > 0 THEN "wait" ELSE "done") ELSE "mk"

\* a failed machine is counted but gets no record
StoreMachineResult_FailedUnrecorded(rec) ==
    LET ip   == MachineAt(i)
        succ == CountSuccess(results.successful_machines, rec)
        fail == CountFailure(results.failed_machines, rec)
        last == i + 1 = Len(machine_ips)
    IN  /\ results' = [results EXCEPT
                          !.machine_results = IF rec.success THEN Put(@, ip, rec) ELSE @,
                          !.successful_machines = succ,
                          !.failed_machines = fail,
                          !.success = IF last THEN LaunchSuccess(succ) ELSE @]
        /\ i' = i + 1
        /\ tpc' = IF last THEN "done" ELSE "mk"

\* the loop body after _execute_training_on_machine returned rec, and, after
\* the last machine, the update of the overall success status
StoreMachineResult(rec) ==
    LET ip   == MachineAt(i)
        succ == CountSuccess(results.successful_machines, rec)
        fail == CountFailure(results.failed_machines, rec)
        last == i + 1 = Len(machine_ips)
    IN  /\ results' = [results EXCEPT
                          !.machine_results = Put(@, ip, rec),
                          !.successful_machines = succ,
                          !.failed_machines = fail,
                          !.success = IF last THEN LaunchSuccess(succ) ELSE @]
        /\ i' = i + 1
        /\ tpc' = IF last THEN "done" ELSE "mk"

\* the model id is not checked
ValidateInputs_IgnoreModelId(ips, mid) ==
    IF ips = <<>> THEN [success |-> FALSE, error |-> "No machine IPs provided"]
    ELSE [success |-> TRUE]

ValidateInputs(ips, mid) ==
    IF ips = <<>> THEN [success |-> FALSE, error |-> "No machine IPs provided"]
    ELSE IF mid = "" THEN [success |-> FALSE, error |-> "Model ID is required"]
    ELSE [success |-> TRUE]

\* "ddp_timeout": 180000000
DdpTimeout == 180000000

\* the parameters of train_model_with_llamafactory at their defaults
DefaultArgs(mid) ==
    [model_id |-> mid, dataset_name |-> "alpaca_en_demo", training_type |-> "lora",
     num_epochs |-> 3, learning_rate |-> "5e-5", batch_size |-> 4,
     gradient_accumulation_steps |-> 4, max_length |-> 1024,
     output_dir |-> "saves/trained_model", stage |-> "sft", template |-> None,
     lora_rank |-> 8, lora_alpha |-> 16, lora_dropout |-> "0.1",
     use_flash_attention |-> TRUE, bf16 |-> TRUE, save_steps |-> 500,
     logging_steps |-> 10, warmup_ratio |-> "0.1", lr_scheduler_type |-> "cosine",
     additional_config |-> PyNone]

\* the training configuration the call builds from its parameters
BuildConfig(a) ==
    LET base ==
            [model_name_or_path |-> a.model_id,
             stage |-> a.stage,
             do_train |-> TRUE,
             finetuning_type |-> a.training_type,
             dataset |-> a.dataset_name,
             cutoff_len |-> a.max_length,
             output_dir |-> a.output_dir,
             overwrite_output_dir |-> TRUE,
             per_device_train_batch_size |-> a.batch_size,
             gradient_accumulation_steps |-> a.gradient_accumulation_steps,
             learning_rate |-> a.learning_rate,
             num_train_epochs |-> a.num_epochs,
             lr_scheduler_type |-> a.lr_scheduler_type,
             warmup_ratio |-> a.warmup_ratio,
             bf16 |-> a.bf16,
             save_steps |-> a.save_steps,
             logging_steps |-> a.logging_steps,
             plot_loss |-> TRUE,
             ddp_timeout |-> DdpTimeout]
        withTemplate ==
            IF ~Falsy(a.template) THEN Put(base, "template", a.template) ELSE base
        withLora ==
            IF a.training_type = "lora"
            THEN Update(withTemplate,
                        [lora_target |-> "all", lora_rank |-> a.lora_rank,
                         lora_alpha |-> a.lora_alpha, lora_dropout |-> a.lora_dropout])
            ELSE withTemplate
        withFlash ==
            IF a.use_flash_attention THEN Put(withLora, "flash_attn", "fa2") ELSE withLora
    IN  IF Truthy(a.additional_config)
        THEN Update(withFlash, a.additional_config.d)
        ELSE withFlash

\* entry of train_model_with_llamafactory up to the first loop iteration
TrainCallWith(ips, a) ==
    /\ tpc = "idle"
    /\ tool' = "launch"
    /\ machine_ips' = ips
    /\ model_id' = a.model_id
    /\ output_dir' = a.output_dir
    /\ LET v == ValidateInputs(ips, a.model_id)
       IN  IF ~v.success
           THEN /\ results' = v
                /\ tpc' = "done"
           ELSE /\ results' = [success |-> TRUE, machine_results |-> EmptyDict,
                               config_used |-> BuildConfig(a),
                               total_machines |-> Len(ips),
                               successful_machines |-> 0, failed_machines |-> 0]
                /\ tpc' = "mk"
    /\ i' = 0
    /\ args' = a
    /\ UNCHANGED <<tmpfiles, config_file_path, ops, probes, machine_config, remote, procs>>

\* the call with every optional parameter left at its default
TrainCall(ips, mid) == TrainCallWith(ips, DefaultArgs(mid))

\* with tempfile.NamedTemporaryFile(..., delete=False): serialize and write
MakeTempConfig(o) ==
    /\ tpc = "mk"
    /\ machine_config' = Specialize(results.config_used, i, MachineAt(i))
    /\ ops' = Append(ops, [op |-> "mktemp", m |-> i, rc |-> o, config |-> machine_config'])
    /\ IF o = "ok"
       THEN /\ tmpfiles' = tmpfiles \cup {TempName(i)}
            /\ config_file_path' = TempName(i)
            /\ tpc' = "scp"
            /\ UNCHANGED <<results, i>>
       ELSE \* the exception leaves the with block before the inner try is entered
            /\ tmpfiles' = IF o = "write_raise" THEN tmpfiles \cup {TempName(i)} ELSE tmpfiles
            /\ UNCHANGED config_file_path
            /\ StoreMachineResult(ExceptResult(MachineAt(i), "Exception"))
    /\ UNCHANGED <<tool, machine_ips, model_id, output_dir, probes, args, remote, procs>>

\* the return code of the copy is not looked at
CopySucceeded_Unchecked(o) == o \in {"exit0", "nonzero"}

\* not (scp_result.returncode != 0), for a copy that returned
CopySucceeded(o) == o = "exit0"

\* subprocess.run(scp_command, timeout=60) and the branch on its return code
CopyConfig(o) ==
    /\ tpc = "scp"
    /\ ops' = Append(ops, [op |-> "scp", m |-> i, rc |-> o])
    /\ remote' = IF o = "exit0"
                 THEN Put(remote, <<MachineAt(i), RemoteConfigPath(i)>>, machine_config)
                 ELSE remote
    /\ IF CopySucceeded(o)
       THEN /\ tpc' = "popen"
            /\ UNCHANGED <<results, i, tmpfiles>>
       ELSE /\ tmpfiles' = Unlink(tmpfiles, config_file_path)
            /\ StoreMachineResult(
                 CASE o = "nonzero" -> CopyFailedResult(MachineAt(i))
                   [] o = "timeout" -> ExceptResult(MachineAt(i), "TimeoutExpired")
                   [] OTHER         -> ExceptResult(MachineAt(i), "Exception"))
    /\ UNCHANGED <<tool, machine_ips, model_id, config_file_path, output_dir, probes, args,
                   machine_config, procs>>

\* subprocess.Popen(ssh_command): the detached training launch
StartTraining(o) ==
    /\ tpc = "popen"
    /\ ops' = Append(ops, [op |-> "ssh", m |-> i, rc |-> o])
    /\ procs' = IF o = "spawned" THEN Put(procs, i, Spawned) ELSE procs
    /\ tmpfiles' = Unlink(tmpfiles, config_file_path)
    /\ StoreMachineResult(
         IF o = "spawned" THEN StartedResult(MachineAt(i), i)
         ELSE ExceptResult(MachineAt(i), "Exception"))
    /\ UNCHANGED <<tool, machine_ips, model_id, config_file_path, output_dir, probes, args,
                   machine_config, remote>>

\* the remote command of the process spawned for position p runs:
\* llamafactory-cli train <remote_config_path> reads the file at the fixed path
TrainingReadsConfig(p) ==
    /\ p \in DOMAIN procs
    /\ procs[p].state = "spawned"
    /\ <<MachineAt(p), RemoteConfigPath(p)>> \in DOMAIN remote
    /\ procs' = Put(procs, p, [state |-> "training",
                               config |-> remote[<<MachineAt(p), RemoteConfigPath(p)>>]])
    /\ UNCHANGED <<tool, tpc, machine_ips, model_id, i, results, tmpfiles, config_file_path,
                   ops, output_dir, probes, args, machine_config, remote>>

\* the ssh process spawned for position p ends (training over, or the
\* connection failed); nobody waits for it
SshExits(p) ==
    /\ p \in DOMAIN procs
    /\ procs[p].state # "exited"
    /\ procs' = Put(procs, p, [state |-> "exited", config |-> procs[p].config])
    /\ UNCHANGED <<tool, tpc, machine_ips, model_id, i, results, tmpfiles, config_file_path,
                   ops, output_dir, probes, args, machine_config, remote>>

\* the parameters of another launch call in progress at the same time
OtherArgs == DefaultArgs("org/other-model")

\* the copy step of that other call for its position p, which holds address
\* ip: its config lands at the remote path of position p
OtherLaunchCopies(p, ip) ==
    /\ tool = "launch"
    /\ remote' = Put(remote, <<ip, RemoteConfigPath(p)>>, Specialize(BuildConfig(OtherArgs), p, ip))
    /\ remote' # remote
    /\ UNCHANGED <<tool, tpc, machine_ips, model_id, i, results, tmpfiles, config_file_path,
                   ops, output_dir, probes, args, machine_config, procs>>

(* -------------------------- _format_yaml_value ------------------------- *)
\* longest string built from YamlAlphabet
MaxStrLen == 3

\* values: strings are sequences of characters
YStr(chars) == [type |-> "str", chars |-> chars]
YBool(b) == [type |-> "bool", val |-> b]
YInt(n) == [type |-> "int", val |-> n]
YNone == [type |-> "none"]

\* str.lower(), on the letters that occur
LowerChar(c) ==
    CASE c = "T" -> "t" [] c = "R" -> "r" [] c = "U" -> "u" [] c = "E" -> "e"
      [] c = "F" -> "f" [] c = "A" -> "a" [] c = "L" -> "l" [] c = "S" -> "s"
      [] c = "N" -> "n" [] c = "Y" -> "y" [] OTHER -> c
Lower(chars) == [k \in 1..Len(chars) |-> LowerChar(chars[k])]

\* str.isdigit(): non-empty and digits only
IsDigitChar(c) == \E k \in 1..Len(DigitChars) : DigitChars[k] = c
IsDigit(chars) == Len(chars) > 0 /\ \A k \in 1..Len(chars) : IsDigitChar(chars[k])

Quoted(chars) == <<"\"">> \o chars \o <<"\"">>

NeedsQuotes(chars) ==
    \/ Lower(chars) \in {<<"t", "r", "u", "e">>, <<"f", "a", "l", "s", "e">>,
                         <<"n", "u", "l", "l">>}
    \/ IsDigit(chars)

FormatYamlValue(value) ==
    CASE value.type = "bool" ->
            IF value.val THEN <<"t", "r", "u", "e">> ELSE <<"f", "a", "l", "s", "e">>
      [] value.type = "str" ->
            IF NeedsQuotes(value.chars) THEN Quoted(value.chars) ELSE value.chars
      [] value.type = "int" -> Decimal(value.val)
      [] value.type = "none" -> <<"N", "o", "n", "e">>

NotFormatted == <<"<not formatted>">>

\* one call of _format_yaml_value
FormatValue ==
    /\ ytext = NotFormatted
    /\ yvalue.type # "unset"
    /\ ytext' = FormatYamlValue(yvalue)
    /\ UNCHANGED <<yvalue, dquery, dnames, trainVars, keyVars, provVars>>

NotDerived == <<"<not derived>">>

\* the derived directories of two positions of one machine list
DeriveDirs ==
    /\ dnames = NotDerived
    /\ dquery.set
    /\ dnames' = <<DerivedDir(dquery.base, dquery.idx_a, dquery.addr_a),
                   DerivedDir(dquery.base, dquery.idx_b, dquery.addr_b)>>
    /\ UNCHANGED <<dquery, yvalue, ytext, trainVars, keyVars, provVars>>

YamlIdle ==
    /\ yvalue = [type |-> "unset"]
    /\ ytext = NotFormatted
    /\ dquery = [set |-> FALSE]
    /\ dnames = NotDerived

\* the values given to the formatter
YamlAlphabet == {"-", "5", "e"}
SampleStrings ==
    {<<"t", "r", "u", "e">>, <<"T", "r", "u", "e">>, <<"T", "R", "U", "E">>,
     <<"f", "a", "l", "s", "e">>, <<"F", "a", "l", "s", "e">>,
     <<"n", "u", "l", "l">>, <<"N", "u", "l", "l">>, <<"~">>,
     <<"1", "2", "3">>, <<"0">>, <<"+", "5">>, <<"1", ".", "5">>,
     <<"y", "e", "s">>, <<"a", "l", "l">>, <<"f", "a", "2">>, <<"s", "f", "t">>,
     <<"c", "o", "s", "i", "n", "e">>}
YamlStrings == SampleStrings \cup UNION {[1..n -> YamlAlphabet] : n \in 0..MaxStrLen}
YamlValues ==
    {YStr(c) : c \in YamlStrings} \cup {YBool(b) : b \in BOOLEAN}
    \cup {YInt(n) : n \in {0, 8, 500, 1024, -1}} \cup {YNone}

(* ---------------------------- stop_training ---------------------------- *)
StoppedResult == [success |-> TRUE, message |-> "Training processes stopped"]
StopFailedResult == [success |-> FALSE, error |-> "Failed to stop training"]

\* results["success"] = results["successful_stops"] > 0
StopSuccess(successful) == successful > 0

\* the exit status is checked as the copy's is in the launch
KillReturned_CheckExitStatus(o) == o = "exit0"

\* whether subprocess.run(ssh pkill) returned (no check=True: any exit status)
\* or raised into the except clause
KillReturned(o) == o \in {"exit0", "nonzero"}

StopCall(ips) ==
    /\ tpc = "idle"
    /\ tool' = "stop"
    /\ machine_ips' = ips
    /\ results' = [success |-> IF ips = <<>> THEN StopSuccess(0) ELSE TRUE,
                   machine_results |-> EmptyDict,
                   total_machines |-> Len(ips),
                   successful_stops |-> 0, failed_stops |-> 0]
    /\ i' = 0
    /\ tpc' = IF ips = <<>> THEN "done" ELSE "kill"
    /\ UNCHANGED <<model_id, tmpfiles, config_file_path, ops, output_dir, probes, args,
                   machine_config, remote, procs>>

\* one iteration of the loop of stop_training
StopMachine(o) ==
    /\ tpc = "kill"
    /\ ops' = Append(ops, [op |-> "ssh", m |-> i, rc |-> o])
    /\ LET rec  == IF KillReturned(o) THEN StoppedResult ELSE StopFailedResult
           succ == CountSuccess(results.successful_stops, rec)
           fail == CountFailure(results.failed_stops, rec)
           last == i + 1 = Len(machine_ips)
       IN  /\ results' = [results EXCEPT
                             !.machine_results = Put(@, MachineAt(i), rec),
                             !.successful_stops = succ,
                             !.failed_stops = fail,
                             !.success = IF last THEN StopSuccess(succ) ELSE @]
           /\ i' = i + 1
           /\ tpc' = IF last THEN "done" ELSE "kill"
    /\ UNCHANGED <<tool, machine_ips, model_id, tmpfiles, config_file_path, output_dir, probes, args,
                   machine_config, remote, procs>>

(* ------------------------- specification: tools ------------------------ *)
(* ------------------------ check_training_status ------------------------ *)
\* longest machine list given to check_training_status
MaxStatusMachines == 2
StatusAddresses == {"10.0.0.1", "10.0.0.2"}
StatusLists == UNION {[1..n -> StatusAddresses] : n \in 0..MaxStatusMachines}
OutputDirs == {"saves/trained_model"}

\* what subprocess.run(ssh_command, timeout=30) can do: return with an exit
\* status and an output, or raise
ProbeReturned(o) == o.rc \in {"exit0", "nonzero"}
ProcessListing == "ubuntu 4242 llamafactory-cli train /tmp/llamafactory_config_0.yaml"
ProcessProbeOutcomes ==
    [rc : {"exit0", "nonzero"}, out : {ProcessListing, ""}]
    \cup [rc : {"TimeoutExpired", "OSError"}, out : {""}]
OutputProbeOutcomes ==
    [rc : {"exit0"}, out : {"total 8 checkpoint-500", "Directory not found"}]
    \cup [rc : {"TimeoutExpired"}, out : {""}]
LogProbeOutcomes ==
    [rc : {"exit0"}, out : {"{current_steps: 10}", "No log file found"}]
    \cup [rc : {"TimeoutExpired"}, out : {""}]

\* "llamafactory-cli" in process_result.stdout
ContainsToolName(stdout) == stdout = ProcessListing

\* the exit status alone decides
IsRunning_ExitStatusOnly(o) == o.rc = "exit0"

\* is_running = returncode == 0 and "llamafactory-cli" in stdout
IsRunning(o) == o.rc = "exit0" /\ ContainsToolName(o.out)

\* the record of a machine whose three probes returned
StatusResult(is_running, dir, files, logs) ==
    [success |-> TRUE, is_training_running |-> is_running, output_directory |-> dir,
     output_files |-> files, recent_logs |-> logs,
     status |-> IF is_running THEN "running" ELSE "completed_or_stopped"]

\* the record written by the except clause
StatusFailedResult(ip, exc) ==
    [success |-> FALSE, error |-> <<"Failed to check status: ", exc>>, machine_ip |-> ip]

\* a failed machine gets no record
StoreStatus_DropFailed(rec) ==
    LET last == i + 1 = Len(machine_ips)
    IN  /\ results' = IF rec.success
                      THEN [results EXCEPT !.machine_status = Put(@, MachineAt(i), rec)]
                      ELSE results
        /\ i' = i + 1
        /\ probes' = EmptyDict
        /\ tpc' = IF last THEN "done" ELSE "probe_ps"

\* a failed machine ends the loop
StoreStatus_AbortOnFailure(rec) ==
    LET last == i + 1 = Len(machine_ips) \/ ~rec.success
    IN  /\ results' = [results EXCEPT !.machine_status = Put(@, MachineAt(i), rec)]
        /\ i' = i + 1
        /\ probes' = EmptyDict
        /\ tpc' = IF last THEN "done" ELSE "probe_ps"

\* results["machine_status"][machine_ip] = ..., then the next iteration or the return
StoreStatus(rec) ==
    LET last == i + 1 = Len(machine_ips)
    IN  /\ results' = [results EXCEPT !.machine_status = Put(@, MachineAt(i), rec)]
        /\ i' = i + 1
        /\ probes' = EmptyDict
        /\ tpc' = IF last THEN "done" ELSE "probe_ps"

\* machine_output_dir as check_training_status computes it
StatusOutputDir(dir, idx, ip) == MachineOutputDir(dir, idx, ip)

\* a check_training_status call made after a launch call returned, for the
\* machine list of that launch
StatusCallAfterLaunch(dir) ==
    /\ tool = "launch" /\ tpc = "done"
    /\ tool' = "status"
    /\ output_dir' = dir
    /\ results' = [success |-> TRUE, machine_status |-> EmptyDict,
                   total_machines |-> Len(machine_ips)]
    /\ i' = 0
    /\ ops' = <<>>
    /\ tpc' = IF machine_ips = <<>> THEN "done" ELSE "probe_ps"
    /\ UNCHANGED <<machine_ips, model_id, tmpfiles, config_file_path, probes, args,
                   machine_config, remote, procs>>

\* entry of check_training_status up to the first loop iteration
StatusCall(ips, dir) ==
    /\ tpc = "idle"
    /\ tool' = "status"
    /\ machine_ips' = ips
    /\ output_dir' = dir
    /\ results' = [success |-> TRUE, machine_status |-> EmptyDict,
                   total_machines |-> Len(ips)]
    /\ i' = 0
    /\ tpc' = IF ips = <<>> THEN "done" ELSE "probe_ps"
    /\ UNCHANGED <<model_id, tmpfiles, config_file_path, ops, probes, args,
                   machine_config, remote, procs>>

\* the process probe: ps aux | grep llamafactory-cli | grep -v grep
ProbeProcess(o) ==
    /\ tpc = "probe_ps"
    /\ ops' = Append(ops, [op |-> "ssh", m |-> i, cmd |-> "ps", rc |-> o.rc, out |-> o.out])
    /\ IF ProbeReturned(o)
       THEN /\ probes' = [is_running |-> IsRunning(o)]
            /\ tpc' = "probe_ls"
            /\ UNCHANGED <<results, i>>
       ELSE StoreStatus(StatusFailedResult(MachineAt(i), o.rc))
    /\ UNCHANGED <<tool, machine_ips, model_id, tmpfiles, config_file_path, output_dir, args,
                   machine_config, remote, procs>>

\* the output probe: ls -la <machine_output_dir>/ || echo 'Directory not found'
ProbeOutput(o) ==
    /\ tpc = "probe_ls"
    /\ ops' = Append(ops, [op |-> "ssh", m |-> i, cmd |-> "ls", rc |-> o.rc, out |-> o.out,
                           dir |-> StatusOutputDir(output_dir, i, MachineAt(i))])
    /\ IF ProbeReturned(o)
       THEN /\ probes' = [is_running |-> probes.is_running, output_files |-> o.out]
            /\ tpc' = "probe_log"
            /\ UNCHANGED <<results, i>>
       ELSE StoreStatus(StatusFailedResult(MachineAt(i), o.rc))
    /\ UNCHANGED <<tool, machine_ips, model_id, tmpfiles, config_file_path, output_dir, args,
                   machine_config, remote, procs>>

\* the log probe: tail -n 20 <machine_output_dir>/trainer_log.jsonl || echo 'No log file found'
ProbeLogs(o) ==
    /\ tpc = "probe_log"
    /\ ops' = Append(ops, [op |-> "ssh", m |-> i, cmd |-> "tail", rc |-> o.rc, out |-> o.out,
                           dir |-> StatusOutputDir(output_dir, i, MachineAt(i))])
    /\ StoreStatus(
         IF ProbeReturned(o)
         THEN StatusResult(probes.is_running,
                           StatusOutputDir(output_dir, i, MachineAt(i)),
                           probes.output_files, o.out)
         ELSE StatusFailedResult(MachineAt(i), o.rc))
    /\ UNCHANGED <<tool, machine_ips, model_id, tmpfiles, config_file_path, output_dir, args,
                   machine_config, remote, procs>>

TrainIdle ==
    /\ tool = "none"
    /\ tpc = "idle"
    /\ machine_ips = <<>>
    /\ model_id = ""
    /\ i = 0
    /\ results = EmptyDict
    /\ tmpfiles = {}
    /\ config_file_path = -1
    /\ ops = <<>>
    /\ output_dir = ""
    /\ probes = EmptyDict
    /\ args = EmptyDict
    /\ machine_config = EmptyDict
    /\ remote = EmptyDict
    /\ procs = EmptyDict

(* ------------------------- LambdaLabsProvider -------------------------- *)
\* longest list of file-system mounts or tags in a launch config
MaxItems == 2
\* len(name) > 64
NameLimit == 64

\* the instance id is not looked at
IdArgValid_Unchecked(id) == TRUE

\* if not instance_id or not isinstance(instance_id, str): raise ValueError
IdArgValid(id) == Truthy(id) /\ id.type = "str"

\* retrieve_instance_details and update_instance_details: no check of instance_id
IdArgUnchecked(id) == TRUE

\* a name of 65 characters passes
UpdateArgsValid_OffByOne(updates) ==
    /\ Truthy(updates)
    /\ "name" \in DOMAIN updates.d
    /\ updates.d["name"].type = "str"
    /\ ~(updates.d["name"].len > NameLimit + 1)

\* update_instance_details: the two checks before the request
UpdateArgsValid(updates) ==
    /\ Truthy(updates)
    /\ "name" \in DOMAIN updates.d
    /\ updates.d["name"].type = "str"
    /\ ~(updates.d["name"].len > NameLimit)

\* the payload launch_instance builds from config
LaunchPayload(instance_type, config) ==
    LET cfg == IF Truthy(config) THEN config ELSE PyDict(EmptyDict)
    IN  [instance_type_name |-> instance_type,
         ssh_key_names      |-> DictGet(cfg, "ssh_key_names", PyList(<<>>)),
         file_system_names  |-> DictGet(cfg, "file_system_names", PyList(<<>>)),
         file_system_mounts |-> DictGet(cfg, "file_system_mounts", PyList(<<>>)),
         tags               |-> DictGet(cfg, "tags", PyList(<<>>))]

HasRegion(config) ==
    LET cfg == IF Truthy(config) THEN config ELSE PyDict(EmptyDict)
    IN  "region_name" \in DOMAIN cfg.d

ItemsHaveKeys(list, keys) ==
    \A k \in 1..Len(list.items) :
        /\ list.items[k].type = "dict"
        /\ keys \subseteq DOMAIN list.items[k].d

\* the structure of the mounts is not looked at
LaunchArgsValid_NoMountCheck(instance_type, config) ==
    /\ HasRegion(config)
    /\ LET payload == LaunchPayload(instance_type, config)
       IN  /\ payload.ssh_key_names.type = "list"
           /\ payload.file_system_names.type = "list"
           /\ payload.file_system_mounts.type = "list"
           /\ payload.tags.type = "list"
           /\ ItemsHaveKeys(payload.tags, {"key", "value"})

\* launch_instance: every check between the entry and the request
LaunchArgsValid(instance_type, config) ==
    /\ HasRegion(config)
    /\ LET payload == LaunchPayload(instance_type, config)
       IN  /\ payload.ssh_key_names.type = "list"
           /\ payload.file_system_names.type = "list"
           /\ payload.file_system_mounts.type = "list"
           /\ payload.tags.type = "list"
           /\ ItemsHaveKeys(payload.file_system_mounts, {"mount_point", "file_system_id"})
           /\ ItemsHaveKeys(payload.tags, {"key", "value"})

\* add_ssh_key: name and public_key must be non-empty strings
AddSshKeyArgsValid(name, public_key) ==
    /\ Truthy(name) /\ name.type = "str"
    /\ Truthy(public_key) /\ public_key.type = "str"

\* the status is not looked at
IsSuccess_Unchecked(status) == TRUE

\* response.raise_for_status(): passes for a 2xx status
IsSuccess(status) == status >= 200 /\ status < 300

\* the responses a request may get: none (the transport failed), or a status
\* with a body that is JSON or not
ConnectError == [kind |-> "connect_error"]
Response(status, json) == [kind |-> "response", status |-> status, json |-> json]
Responses ==
    {ConnectError, Response(200, TRUE), Response(200, FALSE),
     Response(302, TRUE), Response(404, TRUE), Response(500, TRUE)}

Raised(exc) == [kind |-> "raise", exc |-> exc]
Returned(value) == [kind |-> "return", value |-> value]

\* what a method makes of the response: raise_for_status, then response.json()
\* (decode "json") or the constant True (decode "true")
HandleResponse(resp, decode) ==
    IF resp.kind = "connect_error" THEN Raised("TransportError")
    ELSE IF ~IsSuccess(resp.status) THEN Raised("HTTPStatusError")
    ELSE IF decode = "true" THEN Returned("True")
    ELSE IF resp.json THEN Returned("json")
    ELSE Raised("JSONDecodeError")

\* no method has been called yet
ProviderReady == pcall.op = "none"

\* one method of LambdaLabsProvider: argument check, one request, the response
ProviderCall(call, valid, method, path, decode, resp) ==
    /\ ProviderReady
    /\ pcall' = call
    /\ IF valid
       THEN /\ http' = Append(http, [method |-> method, path |-> path, resp |-> resp])
            /\ presult' = HandleResponse(resp, decode)
       ELSE /\ http' = http
            /\ presult' = Raised("ValueError")
    /\ UNCHANGED <<trainVars, keyVars, yamlVars>>

\* argument values
IdArgs == {PyStr(0), PyStr(8), PyNone, PyInt(7)}
NameArgs == {PyStr(0), PyStr(1), PyStr(NameLimit), PyStr(NameLimit + 1), PyNone, PyInt(7)}
UpdatesArgs ==
    {PyNone, PyDict(EmptyDict), PyDict([k \in {"description"} |-> PyStr(5)])}
    \cup {PyDict([k \in {"name"} |-> v]) : v \in NameArgs}
    \cup {PyDict([k \in {"name", "description"} |-> PyStr(5)])}

Absent == [type |-> "absent"]
StrDict(keys) == PyDict([k \in keys |-> PyStr(4)])
ItemLists(kinds) == {PyList(l) : l \in UNION {[1..n -> kinds] : n \in 0..MaxItems}}
MountKinds ==
    {PyStr(3), StrDict({"mount_point"}), StrDict({"file_system_id"}),
     StrDict({"mount_point", "file_system_id"})}
TagKinds ==
    {PyStr(3), StrDict({"key"}), StrDict({"value"}), StrDict({"key", "value"})}
ConfigChoices ==
    [region_name        : {Absent, PyStr(9)},
     ssh_key_names      : {Absent, PyStr(4), PyList(<<PyStr(4)>>)},
     file_system_names  : {Absent, PyStr(4), PyList(<<>>)},
     file_system_mounts : {Absent, PyStr(4)} \cup ItemLists(MountKinds),
     tags               : {Absent, PyNone} \cup ItemLists(TagKinds)]
ConfigOf(choice) ==
    PyDict([k \in {k \in DOMAIN choice : choice[k].type # "absent"} |-> choice[k]])
LaunchConfigs == {PyNone} \cup {ConfigOf(c) : c \in ConfigChoices}

list_running_instances(resp) ==
    ProviderCall([op |-> "list_running_instances"], TRUE, "GET", <<"/instances">>, "json", resp)

retrieve_instance_details(instance_id, resp) ==
    ProviderCall([op |-> "retrieve_instance_details", instance_id |-> instance_id],
                 IdArgUnchecked(instance_id),
                 "GET", <<"/instances/", instance_id>>, "json", resp)

update_instance_details(instance_id, updates, resp) ==
    ProviderCall([op |-> "update_instance_details", instance_id |-> instance_id,
                  updates |-> updates],
                 IdArgUnchecked(instance_id) /\ UpdateArgsValid(updates),
                 "POST", <<"/instances/", instance_id>>, "json", resp)

list_available_instance_types(resp) ==
    ProviderCall([op |-> "list_available_instance_types"], TRUE,
                 "GET", <<"/instance-types">>, "json", resp)

launch_instance(instance_type, config, resp) ==
    ProviderCall([op |-> "launch_instance", instance_type |-> instance_type,
                  config |-> config],
                 LaunchArgsValid(instance_type, config),
                 "POST", <<"/instance-operations/launch">>, "json", resp)

restart_instance(instance_id, resp) ==
    ProviderCall([op |-> "restart_instance", instance_id |-> instance_id],
                 IdArgValid(instance_id),
                 "POST", <<"/instance-operations/restart">>, "json", resp)

terminate_instance(instance_id, resp) ==
    ProviderCall([op |-> "terminate_instance", instance_id |-> instance_id],
                 IdArgValid(instance_id),
                 "POST", <<"/instance-operations/terminate">>, "true", resp)

list_ssh_keys(resp) ==
    ProviderCall([op |-> "list_ssh_keys"], TRUE, "GET", <<"/ssh-keys">>, "json", resp)

add_ssh_key(name, public_key, resp) ==
    ProviderCall([op |-> "add_ssh_key", name |-> name, public_key |-> public_key],
                 AddSshKeyArgsValid(name, public_key),
                 "POST", <<"/ssh-keys">>, "json", resp)

delete_ssh_key(key_id, resp) ==
    ProviderCall([op |-> "delete_ssh_key", key_id |-> key_id],
                 IdArgValid(key_id),
                 "DELETE", <<"/ssh-keys/", key_id>>, "true", resp)

ProviderIdle ==
    /\ pcall = [op |-> "none"]
    /\ http = <<>>
    /\ presult = [kind |-> "none"]

(* ------------------ startup: the shared SSH key ------------------------ *)
Servers == {"s1", "s2"}
ProviderNames == {"lambda_labs", "runpod"}
DefaultKeyName == "modelmint-common-key"

\* a key record of a provider account
KeyRecord(name, pk) == [name |-> name, public_key |-> pk]

InRegistry(name) == \E k \in 1..Len(PROVIDERS) : PROVIDERS[k] = name

\* gpu_cloud_providers.register_provider: PROVIDERS[name] = provider_class
RegisterProvider(name) ==
    /\ \A s \in Servers : spc[s] \notin {"resolve", "list", "add"}
    /\ PROVIDERS' = IF InRegistry(name) THEN PROVIDERS ELSE Append(PROVIDERS, name)
    /\ UNCHANGED <<settings, account, spc, sidx, visited, calls, nruns>>

\* the API key the loop resolves for a provider
ApiKeyFor(provider_name) ==
    IF provider_name = "lambda_labs" THEN settings.lambda_labs_api_key ELSE None

\* the name is looked for in the wrong field of the key records
KeyExists_WrongField(existing_keys) ==
    \E k \in 1..Len(existing_keys.data) :
        existing_keys.data[k].public_key = settings.common_ssh_key_name

\* all(...) in place of any(...)
KeyExists_All(existing_keys) ==
    \A k \in 1..Len(existing_keys.data) :
        existing_keys.data[k].name = settings.common_ssh_key_name

\* any(key.get("name") == settings.common_ssh_key_name for key in existing_keys.get("data", []))
KeyExists(existing_keys) ==
    \E k \in 1..Len(existing_keys.data) :
        existing_keys.data[k].name = settings.common_ssh_key_name

\* continue: the for loop goes on to the provider after position pos, or ends
LoopContinue(pos) == IF pos < Len(PROVIDERS) THEN "resolve" ELSE "done"

\* return in place of continue
SkipProvider_Return(pos) == "done"

\* if not api_key: continue
SkipProvider(pos) == LoopContinue(pos)

\* an exception leaving setup_ssh_keys_for_all_providers (and initialize_server)
Propagate == "crashed"

\* what the loop does with an exception of a provider call: nothing catches it
OnProviderError(pos) == Propagate

\* LambdaLabsProvider.add_ssh_key: the argument check before the request
AddArgsValid(name, public_key) == name # "" /\ public_key # ""

\* the request replaces the key list of the account
AccountAfterAdd_Replace(keys, name, public_key) == <<KeyRecord(name, public_key)>>

\* POST /ssh-keys {name, public_key}: one more key record in the account
AccountAfterAdd(keys, name, public_key) == Append(keys, KeyRecord(name, public_key))

\* initialize_server -> setup_ssh_keys_for_all_providers, up to the loop
StartRun(s) ==
    /\ spc[s] \in {"idle", "done", "crashed"}
    /\ nruns < MaxRuns
    /\ nruns' = nruns + 1
    /\ spc' = [spc EXCEPT ![s] = LoopContinue(0)]
    /\ sidx' = [sidx EXCEPT ![s] = 1]
    /\ visited' = [visited EXCEPT ![s] = <<>>]
    /\ calls' = [calls EXCEPT ![s] = <<>>]
    /\ UNCHANGED <<PROVIDERS, settings, account>>

\* loop head: resolve the API key, skip or construct the provider client
ResolveProvider(s) ==
    /\ spc[s] = "resolve"
    /\ LET p == PROVIDERS[sidx[s]]
       IN  /\ visited' = [visited EXCEPT ![s] = Append(@, p)]
           /\ IF Falsy(ApiKeyFor(p))
              THEN /\ spc' = [spc EXCEPT ![s] = SkipProvider(sidx[s])]
                   /\ sidx' = [sidx EXCEPT ![s] = @ + 1]
                   /\ UNCHANGED calls
              ELSE /\ spc' = [spc EXCEPT ![s] = "list"]
                   /\ calls' = [calls EXCEPT ![s] =
                                   Append(@, [provider |-> p, call |-> "get_provider", rc |-> "ok"])]
                   /\ UNCHANGED sidx
    /\ UNCHANGED <<PROVIDERS, settings, account, nruns>>

\* provider.list_ssh_keys() and the existence check
ListKeys(s, o) ==
    /\ spc[s] = "list"
    /\ LET p == PROVIDERS[sidx[s]]
       IN  /\ calls' = [calls EXCEPT ![s] =
                           Append(@, [provider |-> p, call |-> "list_ssh_keys", rc |-> o])]
           /\ IF o = "ok"
              THEN IF KeyExists([data |-> account[p]])
                   THEN /\ spc' = [spc EXCEPT ![s] = LoopContinue(sidx[s])]
                        /\ sidx' = [sidx EXCEPT ![s] = @ + 1]
                   ELSE /\ spc' = [spc EXCEPT ![s] = "add"]
                        /\ UNCHANGED sidx
              ELSE /\ spc' = [spc EXCEPT ![s] = OnProviderError(sidx[s])]
                   /\ UNCHANGED sidx
    /\ UNCHANGED <<PROVIDERS, settings, account, visited, nruns>>

\* provider.add_ssh_key(common_ssh_key_name, common_ssh_public_key)
\*   o = "ok": 2xx; "http_error": rejected, nothing added;
\*   "lost": the account took the key but the response never arrived
AddKey(s, o) ==
    /\ spc[s] = "add"
    /\ LET p    == PROVIDERS[sidx[s]]
           name == settings.common_ssh_key_name
           pk   == settings.common_ssh_public_key
           rc   == IF AddArgsValid(name, pk) THEN o ELSE "ValueError"
       IN  /\ calls' = [calls EXCEPT ![s] =
                           Append(@, [provider |-> p, call |-> "add_ssh_key", rc |-> rc])]
           /\ account' = IF rc \in {"ok", "lost"}
                         THEN [account EXCEPT ![p] = AccountAfterAdd(@, name, pk)]
                         ELSE account
           /\ IF rc = "ok"
              THEN /\ spc' = [spc EXCEPT ![s] = LoopContinue(sidx[s])]
                   /\ sidx' = [sidx EXCEPT ![s] = @ + 1]
              ELSE /\ spc' = [spc EXCEPT ![s] = OnProviderError(sidx[s])]
                   /\ UNCHANGED sidx
    /\ UNCHANGED <<PROVIDERS, settings, visited, nruns>>

\* no server is inside setup_ssh_keys_for_all_providers
NoRunInProgress == \A s \in Servers : spc[s] \in {"idle", "done", "crashed"}

SettingsChoices ==
    [lambda_labs_api_key : {"", "secret"},
     common_ssh_key_name : {DefaultKeyName, ""},
     common_ssh_public_key : {"", "ssh-ed25519 AAAA"}]

\* provider accounts as they may be found: key names are unique in an account
InitialAccounts ==
    LET mine == KeyRecord(DefaultKeyName, "ssh-rsa OLD")
        other == KeyRecord("laptop", "ssh-rsa LAPTOP")
    IN  {<<>>, <<other>>, <<mine>>, <<other, mine>>, <<mine, other>>}

KeysIdle ==
    /\ PROVIDERS = <<"lambda_labs">>
    /\ settings = [lambda_labs_api_key |-> "secret", common_ssh_key_name |-> DefaultKeyName,
                   common_ssh_public_key |-> "ssh-ed25519 AAAA"]
    /\ account = [p \in ProviderNames |-> <<>>]
    /\ spc = [s \in Servers |-> "idle"]
    /\ sidx = [s \in Servers |-> 1]
    /\ visited = [s \in Servers |-> <<>>]
    /\ calls = [s \in Servers |-> <<>>]
    /\ nruns = 0

InitKeys ==
    /\ TrainIdle
    /\ ProviderIdle /\ YamlIdle
    /\ PROVIDERS = <<"lambda_labs">>
    /\ settings \in SettingsChoices
    /\ \E a \in InitialAccounts :
          account = [p \in ProviderNames |-> IF p = "lambda_labs" THEN a ELSE <<>>]
    /\ spc = [s \in Servers |-> "idle"]
    /\ sidx = [s \in Servers |-> 1]
    /\ visited = [s \in Servers |-> <<>>]
    /\ calls = [s \in Servers |-> <<>>]
    /\ nruns = 0

\* runs one after the other: a server starts only when no run is in progress
NextKeys ==
    \/ \E name \in ProviderNames : RegisterProvider(name) /\ UNCHANGED <<trainVars, provVars, yamlVars>>
    \/ \E s \in Servers : NoRunInProgress /\ StartRun(s) /\ UNCHANGED <<trainVars, provVars, yamlVars>>
    \/ \E s \in Servers : ResolveProvider(s) /\ UNCHANGED <<trainVars, provVars, yamlVars>>
    \/ \E s \in Servers, o \in {"ok", "http_error"} : ListKeys(s, o) /\ UNCHANGED <<trainVars, provVars, yamlVars>>
    \/ \E s \in Servers, o \in {"ok", "http_error", "lost"} : AddKey(s, o) /\ UNCHANGED <<trainVars, provVars, yamlVars>>

SpecKeys == InitKeys /\ [][NextKeys]_vars

\* two server processes: each runs initialize_server on its own, so the steps
\* of their runs interleave freely
NextKeysInterleaved ==
    \/ \E name \in ProviderNames : RegisterProvider(name) /\ UNCHANGED <<trainVars, provVars, yamlVars>>
    \/ \E s \in Servers : StartRun(s) /\ UNCHANGED <<trainVars, provVars, yamlVars>>
    \/ \E s \in Servers : ResolveProvider(s) /\ UNCHANGED <<trainVars, provVars, yamlVars>>
    \/ \E s \in Servers, o \in {"ok", "http_error"} : ListKeys(s, o) /\ UNCHANGED <<trainVars, provVars, yamlVars>>
    \/ \E s \in Servers, o \in {"ok", "http_error", "lost"} : AddKey(s, o) /\ UNCHANGED <<trainVars, provVars, yamlVars>>

SpecKeysInterleaved == InitKeys /\ [][NextKeysInterleaved]_vars

InitTrain == TrainIdle /\ KeysIdle /\ ProviderIdle /\ YamlIdle

NextTrain ==
    \/ \E ips \in MachineLists, mid \in ModelIds : TrainCall(ips, mid) /\ UNCHANGED <<keyVars, provVars, yamlVars>>
    \/ \E o \in {"ok", "create_raise", "write_raise"} : MakeTempConfig(o) /\ UNCHANGED <<keyVars, provVars, yamlVars>>
    \/ \E o \in {"exit0", "nonzero", "timeout", "raise"} : CopyConfig(o) /\ UNCHANGED <<keyVars, provVars, yamlVars>>
    \/ \E o \in {"spawned", "raise"} : StartTraining(o) /\ UNCHANGED <<keyVars, provVars, yamlVars>>
    \/ \E ips \in MachineLists : StopCall(ips) /\ UNCHANGED <<keyVars, provVars, yamlVars>>
    \/ \E o \in {"exit0", "nonzero", "timeout", "raise"} : StopMachine(o) /\ UNCHANGED <<keyVars, provVars, yamlVars>>

SpecTrain == InitTrain /\ [][NextTrain]_vars

InitStatus == TrainIdle /\ KeysIdle /\ ProviderIdle /\ YamlIdle

NextStatus ==
    \/ \E ips \in StatusLists, dir \in OutputDirs : StatusCall(ips, dir) /\ UNCHANGED <<keyVars, provVars, yamlVars>>
    \/ \E o \in ProcessProbeOutcomes : ProbeProcess(o) /\ UNCHANGED <<keyVars, provVars, yamlVars>>
    \/ \E o \in OutputProbeOutcomes : ProbeOutput(o) /\ UNCHANGED <<keyVars, provVars, yamlVars>>
    \/ \E o \in LogProbeOutcomes : ProbeLogs(o) /\ UNCHANGED <<keyVars, provVars, yamlVars>>

SpecStatus == InitStatus /\ [][NextStatus]_vars

\* launches with the optional parameters varied
AdditionalConfigs ==
    {PyNone, PyDict(EmptyDict),
     PyDict([k \in {"lora_rank"} |-> 64]),
     PyDict([k \in {"flash_attn"} |-> "disabled"]),
     PyDict([k \in {"template"} |-> "qwen"]),
     PyDict([k \in {"output_dir"} |-> "saves/other"]),
     PyDict([k \in {"deepspeed"} |-> "ds_z3_config.json"]),
     PyDict([k \in {"learning_rate", "lora_target"} |->
                IF k = "learning_rate" THEN "1e-4" ELSE "q_proj,v_proj"])}
LaunchArgs ==
    {[DefaultArgs("org/model") EXCEPT !.training_type = tt, !.template = tp,
                                      !.use_flash_attention = fa, !.additional_config = ac] :
        tt \in {"lora", "full"}, tp \in {None, "", "llama3"}, fa \in BOOLEAN,
        ac \in AdditionalConfigs}

ConfigLists == {<<>>, <<"10.0.0.1">>, <<"10.0.0.2", "10.0.0.1">>}

\* the three tools, and the processes a launch leaves behind
InitTools == TrainIdle /\ KeysIdle /\ ProviderIdle /\ YamlIdle

NextTools ==
    \/ \E ips \in StatusLists, mid \in ModelIds : TrainCall(ips, mid) /\ UNCHANGED <<keyVars, provVars, yamlVars>>
    \/ \E o \in {"ok", "create_raise", "write_raise"} : MakeTempConfig(o) /\ UNCHANGED <<keyVars, provVars, yamlVars>>
    \/ \E o \in {"exit0", "nonzero", "timeout", "raise"} : CopyConfig(o) /\ UNCHANGED <<keyVars, provVars, yamlVars>>
    \/ \E o \in {"spawned", "raise"} : StartTraining(o) /\ UNCHANGED <<keyVars, provVars, yamlVars>>
    \/ \E p \in 0..(MaxStatusMachines - 1) : TrainingReadsConfig(p) /\ UNCHANGED <<keyVars, provVars, yamlVars>>
    \/ \E p \in 0..(MaxStatusMachines - 1) : SshExits(p) /\ UNCHANGED <<keyVars, provVars, yamlVars>>
    \/ \E ips \in StatusLists : StopCall(ips) /\ UNCHANGED <<keyVars, provVars, yamlVars>>
    \/ \E o \in {"exit0", "nonzero", "timeout", "raise"} : StopMachine(o) /\ UNCHANGED <<keyVars, provVars, yamlVars>>
    \/ \E ips \in StatusLists, dir \in OutputDirs : StatusCall(ips, dir) /\ UNCHANGED <<keyVars, provVars, yamlVars>>
    \/ \E o \in ProcessProbeOutcomes : ProbeProcess(o) /\ UNCHANGED <<keyVars, provVars, yamlVars>>
    \/ \E o \in OutputProbeOutcomes : ProbeOutput(o) /\ UNCHANGED <<keyVars, provVars, yamlVars>>
    \/ \E o \in LogProbeOutcomes : ProbeLogs(o) /\ UNCHANGED <<keyVars, provVars, yamlVars>>

SpecTools == InitTools /\ [][NextTools]_vars

\* a launch whose blocking steps all return or raise; the processes it
\* spawned may run for ever
InitLaunch == TrainIdle /\ KeysIdle /\ ProviderIdle /\ YamlIdle

NextLaunch ==
    \/ \E ips \in StatusLists, mid \in ModelIds : TrainCall(ips, mid) /\ UNCHANGED <<keyVars, provVars, yamlVars>>
    \/ \E o \in {"ok", "create_raise", "write_raise"} : MakeTempConfig(o) /\ UNCHANGED <<keyVars, provVars, yamlVars>>
    \/ \E o \in {"exit0", "nonzero", "timeout", "raise"} : CopyConfig(o) /\ UNCHANGED <<keyVars, provVars, yamlVars>>
    \/ \E o \in {"spawned", "raise"} : StartTraining(o) /\ UNCHANGED <<keyVars, provVars, yamlVars>>
    \/ \E p \in 0..(MaxStatusMachines - 1) : TrainingReadsConfig(p) /\ UNCHANGED <<keyVars, provVars, yamlVars>>
    \/ \E p \in 0..(MaxStatusMachines - 1) : SshExits(p) /\ UNCHANGED <<keyVars, provVars, yamlVars>>

\* a step of the call itself: writing the temp file, the copy (timeout=60), Popen
LaunchStep ==
    \/ \E o \in {"ok", "create_raise", "write_raise"} : MakeTempConfig(o) /\ UNCHANGED <<keyVars, provVars, yamlVars>>
    \/ \E o \in {"exit0", "nonzero", "timeout", "raise"} : CopyConfig(o) /\ UNCHANGED <<keyVars, provVars, yamlVars>>
    \/ \E o \in {"spawned", "raise"} : StartTraining(o) /\ UNCHANGED <<keyVars, provVars, yamlVars>>

SpecLaunchFair == InitLaunch /\ [][NextLaunch]_vars /\ WF_vars(LaunchStep)

\* a launch, then a status call for the same machine list
FollowUpDirs == {"saves/trained_model", "saves/other"}
FollowUpArgs ==
    {[DefaultArgs("org/model") EXCEPT !.additional_config = ac] :
        ac \in {PyNone, PyDict([k \in {"output_dir"} |-> "saves/other"])}}
FollowUpLists == ConfigLists \cup {<<"10.0.0.1", "10.0.0.1">>}

InitFollowUp == TrainIdle /\ KeysIdle /\ ProviderIdle /\ YamlIdle

NextFollowUp ==
    \/ \E ips \in FollowUpLists, a \in FollowUpArgs : TrainCallWith(ips, a) /\ UNCHANGED <<keyVars, provVars, yamlVars>>
    \/ MakeTempConfig("ok") /\ UNCHANGED <<keyVars, provVars, yamlVars>>
    \/ \E o \in {"exit0", "nonzero"} : CopyConfig(o) /\ UNCHANGED <<keyVars, provVars, yamlVars>>
    \/ StartTraining("spawned") /\ UNCHANGED <<keyVars, provVars, yamlVars>>
    \/ \E dir \in FollowUpDirs : StatusCallAfterLaunch(dir) /\ UNCHANGED <<keyVars, provVars, yamlVars>>
    \/ \E o \in ProcessProbeOutcomes : ProbeProcess(o) /\ UNCHANGED <<keyVars, provVars, yamlVars>>
    \/ \E o \in OutputProbeOutcomes : ProbeOutput(o) /\ UNCHANGED <<keyVars, provVars, yamlVars>>
    \/ \E o \in LogProbeOutcomes : ProbeLogs(o) /\ UNCHANGED <<keyVars, provVars, yamlVars>>

SpecFollowUp == InitFollowUp /\ [][NextFollowUp]_vars

\* a launch call, the processes it leaves behind, and another launch call
\* copying its configs to the same machines
InitShared == TrainIdle /\ KeysIdle /\ ProviderIdle /\ YamlIdle

NextShared ==
    \/ \E ips \in StatusLists : TrainCall(ips, "org/model") /\ UNCHANGED <<keyVars, provVars, yamlVars>>
    \/ \E o \in {"ok", "create_raise", "write_raise"} : MakeTempConfig(o) /\ UNCHANGED <<keyVars, provVars, yamlVars>>
    \/ \E o \in {"exit0", "nonzero", "timeout", "raise"} : CopyConfig(o) /\ UNCHANGED <<keyVars, provVars, yamlVars>>
    \/ \E o \in {"spawned", "raise"} : StartTraining(o) /\ UNCHANGED <<keyVars, provVars, yamlVars>>
    \/ \E p \in 0..(MaxStatusMachines - 1) : TrainingReadsConfig(p) /\ UNCHANGED <<keyVars, provVars, yamlVars>>
    \/ \E p \in 0..(MaxStatusMachines - 1) : SshExits(p) /\ UNCHANGED <<keyVars, provVars, yamlVars>>
    \/ \E p \in 0..(MaxStatusMachines - 1), ip \in StatusAddresses : OtherLaunchCopies(p, ip) /\ UNCHANGED <<keyVars, provVars, yamlVars>>

SpecShared == InitShared /\ [][NextShared]_vars

InitConfig == TrainIdle /\ KeysIdle /\ ProviderIdle /\ YamlIdle

NextConfig ==
    \/ \E ips \in ConfigLists, a \in LaunchArgs : TrainCallWith(ips, a) /\ UNCHANGED <<keyVars, provVars, yamlVars>>
    \/ \E o \in {"ok", "write_raise"} : MakeTempConfig(o) /\ UNCHANGED <<keyVars, provVars, yamlVars>>
    \/ \E o \in {"exit0", "nonzero"} : CopyConfig(o) /\ UNCHANGED <<keyVars, provVars, yamlVars>>
    \/ \E o \in {"spawned", "raise"} : StartTraining(o) /\ UNCHANGED <<keyVars, provVars, yamlVars>>

SpecConfig == InitConfig /\ [][NextConfig]_vars

InitYaml ==
    /\ TrainIdle /\ KeysIdle /\ ProviderIdle
    /\ yvalue \in YamlValues
    /\ ytext = NotFormatted
    /\ dquery = [set |-> FALSE]
    /\ dnames = NotDerived

NextYaml == FormatValue

SpecYaml == InitYaml /\ [][NextYaml]_vars

\* two positions of a machine list: any indexes up to MaxIndex, any addresses
\* of up to MaxAddrLen characters
MaxIndex == 11
MaxAddrLen == 1
AddressAlphabet == {"1", ".", "_"}
AddressTexts == UNION {[1..n -> AddressAlphabet] : n \in 0..MaxAddrLen}
DirQueries ==
    {[set |-> TRUE, base |-> TextOf("saves/trained_model"),
      idx_a |-> ia, addr_a |-> a, idx_b |-> ib, addr_b |-> b] :
        ia \in 0..MaxIndex, ib \in 0..MaxIndex, a \in AddressTexts, b \in AddressTexts}

InitDirs ==
    /\ TrainIdle /\ KeysIdle /\ ProviderIdle
    /\ yvalue = [type |-> "unset"]
    /\ ytext = NotFormatted
    /\ dquery \in {q \in DirQueries : q.idx_a <= q.idx_b}
    /\ dnames = NotDerived

NextDirs == DeriveDirs

SpecDirs == InitDirs /\ [][NextDirs]_vars

InitProvider == TrainIdle /\ KeysIdle /\ ProviderIdle /\ YamlIdle

NextProvider ==
    \/ ProviderReady /\ \E r \in Responses : list_running_instances(r)
    \/ ProviderReady /\ \E id \in IdArgs, r \in Responses : retrieve_instance_details(id, r)
    \/ ProviderReady /\ \E id \in IdArgs, u \in UpdatesArgs, r \in Responses : update_instance_details(id, u, r)
    \/ ProviderReady /\ \E r \in Responses : list_available_instance_types(r)
    \/ ProviderReady /\ \E t \in {PyStr(0), PyStr(8)}, c \in LaunchConfigs, r \in Responses :
          launch_instance(t, c, r)
    \/ ProviderReady /\ \E id \in IdArgs, r \in Responses : restart_instance(id, r)
    \/ ProviderReady /\ \E id \in IdArgs, r \in Responses : terminate_instance(id, r)
    \/ ProviderReady /\ \E r \in Responses : list_ssh_keys(r)
    \/ ProviderReady /\ \E n \in IdArgs, k \in IdArgs, r \in Responses : add_ssh_key(n, k, r)
    \/ ProviderReady /\ \E id \in IdArgs, r \in Responses : delete_ssh_key(id, r)

SpecProvider == InitProvider /\ [][NextProvider]_vars

(* ======================= properties: the tools ========================= *)
Positions == 0 .. (Len(machine_ips) - 1)
AddressesOf(ips) == {ips[k] : k \in 1..Len(ips)}
Distinct(ips) == \A a, b \in 1..Len(ips) : a # b => ips[a] # ips[b]
LaunchDone == tool = "launch" /\ tpc = "done"
ValidLaunch == machine_ips # <<>> /\ model_id # ""
StopDone == tool = "stop" /\ tpc = "done"

\* what happened to the machine at loop index m, read off the operations
AttemptedAt(m) == \E k \in 1..Len(ops) : ops[k].m = m
CopyExitedZeroAt(m) ==
    \E k \in 1..Len(ops) : ops[k].m = m /\ ops[k].op = "scp" /\ ops[k].rc = "exit0"
CopyExitedNonZeroAt(m) ==
    \E k \in 1..Len(ops) : ops[k].m = m /\ ops[k].op = "scp" /\ ops[k].rc = "nonzero"
RaisedAt(m) ==
    \E k \in 1..Len(ops) :
        ops[k].m = m /\ ops[k].rc \in {"create_raise", "write_raise", "timeout", "raise"}
CopiedMachines == {m \in Positions : CopyExitedZeroAt(m) /\ ~RaisedAt(m)}

\* C1: a launch on a non-empty list of distinct addresses returns having
\* attempted every machine, whatever each machine's outcome; successful_machines
\* is the number of machines whose copy succeeded (and whose handling did not
\* raise), failed_machines the number of all others, and the two add up to
\* total_machines.
C1_LaunchIsolatesMachineFailures ==
    (LaunchDone /\ ValidLaunch /\ Distinct(machine_ips)) =>
        /\ \A m \in Positions : AttemptedAt(m)
        /\ DOMAIN results.machine_results = AddressesOf(machine_ips)
        /\ results.successful_machines = Cardinality(CopiedMachines)
        /\ results.failed_machines = Len(machine_ips) - Cardinality(CopiedMachines)
        /\ results.successful_machines + results.failed_machines = results.total_machines
        /\ results.total_machines = Len(machine_ips)

\* three machines, the copy to the second exits non-zero, the other two start
C1_Witness ==
    /\ LaunchDone /\ Len(machine_ips) = 3 /\ Distinct(machine_ips)
    /\ CopyExitedNonZeroAt(1)
    /\ results.machine_results[machine_ips[2]].step = "file_transfer"
    /\ results.successful_machines = 2
    /\ results.failed_machines = 1
    /\ results.success

\* C2: a launch with valid arguments returns success = true exactly when
\* successful_machines > 0: one started machine suffices, none gives false.
C2_LaunchSuccessIffAnyMachine ==
    (LaunchDone /\ ValidLaunch) =>
        /\ results.success = (results.successful_machines > 0)
        /\ (CopiedMachines # {}) => results.success
        /\ (CopiedMachines = {}) => ~results.success

C2_Witness ==
    /\ LaunchDone /\ ValidLaunch
    /\ results.successful_machines = 1
    /\ results.failed_machines >= 1
    /\ results.success

\* C3: a launch with an empty machine list or an empty model id returns an
\* error result at once: no temporary file, no copy, no ssh command.
C3_InvalidLaunchHasNoEffects ==
    (tool = "launch" /\ ~ValidLaunch) =>
        /\ tpc = "done"
        /\ results.success = FALSE
        /\ "error" \in DOMAIN results
        /\ ops = <<>>
        /\ tmpfiles = {}

C3_Witness ==
    /\ tool = "launch" /\ tpc = "done"
    /\ machine_ips # <<>> /\ model_id = ""
    /\ ~results.success

\* C4: a temporary config file exists only while its machine is being
\* processed: once the step of a machine has returned, on whatever path, the
\* file it created is gone.
C4_TempFileGoneWhenStepReturns ==
    tmpfiles \subseteq (IF tpc \in {"scp", "popen"} THEN {config_file_path} ELSE {})

\* every ssh call of a stop failed: it raised, timed out or exited non-zero
AllStopCallsFailed ==
    \A k \in 1..Len(ops) : ops[k].rc \in {"nonzero", "timeout", "raise"}

\* C5: when the ssh call to every machine of a stop fails (raises, times out
\* or exits non-zero), the result has success = false and a failure record for
\* every machine.
C5_StopAllFailedReportsFailure ==
    (StopDone /\ machine_ips # <<>> /\ AllStopCallsFailed) =>
        /\ ~results.success
        /\ DOMAIN results.machine_results = AddressesOf(machine_ips)
        /\ \A ip \in DOMAIN results.machine_results : ~results.machine_results[ip].success

\* the last ssh invocation of a stop for address ip, and whether it returned
LastPositionOf(ip) ==
    CHOOSE m \in Positions :
        /\ machine_ips[m + 1] = ip
        /\ \A n \in Positions : machine_ips[n + 1] = ip => n <= m
InvocationReturnedAt(m) ==
    \E k \in 1..Len(ops) : ops[k].m = m /\ ops[k].rc \in {"exit0", "nonzero"}
RecordsFollowInvocation ==
    \A ip \in DOMAIN results.machine_results :
        results.machine_results[ip].success = InvocationReturnedAt(LastPositionOf(ip))

\* C6 (as stated): in a stop, a machine's record has success = true iff its ssh
\* invocation returned without raising, whatever the exit status, and the
\* overall success is true iff some machine's record has success = true.
C6_StopSuccessIffSomeRecordSucceeded ==
    StopDone =>
        /\ RecordsFollowInvocation
        /\ results.success = (\E ip \in DOMAIN results.machine_results :
                                 results.machine_results[ip].success)

\* C6 (amended): in a stop, a machine's record has success = true iff its
\* (last) ssh invocation returned without raising, whatever the exit status,
\* and the overall success is true iff the ssh invocation of at least one
\* entry of the list returned without raising.
C6_StopSuccessIffSomeInvocationReturned ==
    StopDone =>
        /\ RecordsFollowInvocation
        /\ results.success = (\E m \in Positions : InvocationReturnedAt(m))

\* one machine's ssh exits non-zero (success), another's raises (failure)
C6_Witness ==
    /\ StopDone /\ Distinct(machine_ips) /\ Len(machine_ips) >= 2
    /\ \E k \in 1..Len(ops) :
          /\ ops[k].rc = "nonzero"
          /\ results.machine_results[machine_ips[ops[k].m + 1]].success
    /\ \E k \in 1..Len(ops) :
          /\ ops[k].rc \in {"timeout", "raise"}
          /\ ~results.machine_results[machine_ips[ops[k].m + 1]].success
    /\ results.success

(* ================== properties: the shared SSH key ===================== *)
HoldsSharedKey(keys) ==
    \E k \in 1..Len(keys) : keys[k].name = settings.common_ssh_key_name
CountNamed(keys, name) == Cardinality({k \in 1..Len(keys) : keys[k].name = name})
HasCredential(p) == ~Falsy(ApiKeyFor(p))
CallsOf(s, p, call) ==
    {k \in 1..Len(calls[s]) : calls[s][k].provider = p /\ calls[s][k].call = call}

\* this step issues add_ssh_key for provider p
AddCallIssued(p) ==
    \E s \in Servers :
        /\ Len(calls'[s]) = Len(calls[s]) + 1
        /\ calls'[s][Len(calls'[s])].call = "add_ssh_key"
        /\ calls'[s][Len(calls'[s])].provider = p

\* C7: while a provider account holds a key with the shared name, a run
\* issues no add_ssh_key call for that provider.
C7_NoAddWhenKeyPresent ==
    [][\A p \in ProviderNames : HoldsSharedKey(account[p]) => ~AddCallIssued(p)]_vars

\* a second run finished without an add after a first run had added the key
C7_Witness ==
    /\ nruns = 2
    /\ \A s \in Servers : spc[s] = "done"
    /\ \E s \in Servers : CallsOf(s, "lambda_labs", "add_ssh_key") # {}
    /\ \E s \in Servers :
          /\ CallsOf(s, "lambda_labs", "list_ssh_keys") # {}
          /\ CallsOf(s, "lambda_labs", "add_ssh_key") = {}
    /\ CountNamed(account["lambda_labs"], settings.common_ssh_key_name) = 1

\* C8: runs one after the other never leave two records of one name in an
\* account, and after every run that returned each provider with a credential
\* holds exactly one key with the shared name.
C8_ExactlyOneSharedKey ==
    /\ \A p \in ProviderNames :
          \A k \in 1..Len(account[p]) : CountNamed(account[p], account[p][k].name) = 1
    /\ \A s \in Servers :
          spc[s] = "done" =>
              \A k \in 1..Len(PROVIDERS) :
                  HasCredential(PROVIDERS[k]) =>
                      CountNamed(account[PROVIDERS[k]], settings.common_ssh_key_name) = 1

\* two runs have returned; the first added the key, the account holds one
C8_Witness ==
    /\ nruns = MaxRuns
    /\ \A s \in Servers : spc[s] = "done"
    /\ HasCredential("lambda_labs")
    /\ \E k \in 1..Len(account["lambda_labs"]) :
          account["lambda_labs"][k] =
              KeyRecord(settings.common_ssh_key_name, settings.common_ssh_public_key)
    /\ CountNamed(account["lambda_labs"], settings.common_ssh_key_name) = 1

\* a list_ssh_keys or add_ssh_key call of this run failed
ProviderCallFailed(s) ==
    \E k \in 1..Len(calls[s]) : calls[s][k].rc \in {"http_error", "lost", "ValueError"}

\* C9: a failing list_ssh_keys or add_ssh_key call does not abort the run:
\* the providers after it are still processed and initialize_server completes.
C9_ProviderFailureNotFatal ==
    \A s \in Servers : ProviderCallFailed(s) => spc[s] # "crashed"

\* this step skips the provider at position sidx[s] for want of a credential
SkipsProvider(s) ==
    /\ spc[s] = "resolve"
    /\ Len(visited'[s]) = Len(visited[s]) + 1
    /\ ~HasCredential(PROVIDERS[sidx[s]])
NoCallsForSkipped(s) ==
    \A k \in 1..Len(calls[s]) : HasCredential(calls[s][k].provider)

\* C10: a provider without a credential is skipped: no client is constructed
\* and no call made for it, and the loop goes on to the provider after it (or
\* ends normally when it was the last).
C10_MissingCredentialSkipsProvider ==
    [][\A s \in Servers :
          /\ NoCallsForSkipped(s)'
          /\ SkipsProvider(s) =>
                /\ calls'[s] = calls[s]
                /\ sidx'[s] = sidx[s] + 1
                /\ spc'[s] = IF sidx[s] < Len(PROVIDERS) THEN "resolve" ELSE "done"]_vars

\* lambda_labs was skipped for want of a key and the loop reached runpod
C10_Witness ==
    \E s \in Servers :
        /\ spc[s] = "done"
        /\ settings.lambda_labs_api_key = ""
        /\ visited[s] = <<"lambda_labs", "runpod">>
        /\ calls[s] = <<>>

\* the key records of account p before this step are all still there after it,
\* unchanged and in place
KeysKept(p) ==
    /\ Len(account'[p]) >= Len(account[p])
    /\ \A k \in 1..Len(account[p]) : account'[p][k] = account[p][k]
SuccessfulAdds(s, p) ==
    {k \in CallsOf(s, p, "add_ssh_key") : calls[s][k].rc \in {"ok", "lost"}}

\* C11: a run never deletes or changes a key record: every step keeps the
\* records an account held, adds at most one record, and that record is the
\* shared key; and a run adds to an account at most once.
C11_RunOnlyAddsSharedKey ==
    [][\A p \in ProviderNames :
          /\ KeysKept(p)
          /\ Len(account'[p]) <= Len(account[p]) + 1
          /\ Len(account'[p]) = Len(account[p]) + 1 =>
                account'[p][Len(account'[p])] =
                    KeyRecord(settings.common_ssh_key_name, settings.common_ssh_public_key)
          /\ \A s \in Servers : Cardinality(SuccessfulAdds(s, p))' <= 1]_vars

\* a run added the shared key to an account that held another key, which is
\* still there
C11_Witness ==
    /\ \E s \in Servers : spc[s] = "done" /\ SuccessfulAdds(s, "lambda_labs") # {}
    /\ Len(account["lambda_labs"]) = 2
    /\ account["lambda_labs"][1] = KeyRecord("laptop", "ssh-rsa LAPTOP")
    /\ account["lambda_labs"][2].name = settings.common_ssh_key_name

(* ------------------ properties of LambdaLabsProvider -------------------- *)
NoRequestSent == http = <<>>
RejectedLocally == presult = Raised("ValueError") /\ NoRequestSent

IsEmptyString(v) == v.type = "str" /\ v.len = 0

\* updates contains a name, and the name is a string of at most 64 characters
NameAcceptable(updates) ==
    /\ updates.type = "dict"
    /\ "name" \in DOMAIN updates.d
    /\ updates.d["name"].type = "str"
    /\ updates.d["name"].len <= NameLimit

\* C12: update_instance_details sends a request only if updates contains a name
\* that is a string of at most 64 characters; for every other updates value it
\* raises the invalid-argument error and sends nothing.
C12_UpdateSendsOnlyWithValidName ==
    pcall.op = "update_instance_details" =>
        IF NameAcceptable(pcall.updates) THEN Len(http) = 1 ELSE RejectedLocally

C12_Witness ==
    /\ pcall.op = "update_instance_details"
    /\ pcall.updates.type = "dict"
    /\ "name" \in DOMAIN pcall.updates.d
    /\ pcall.updates.d["name"] = PyStr(NameLimit + 1)
    /\ RejectedLocally

ListTypedWhenPresent(config, key) ==
    key \in DOMAIN config.d => config.d[key].type = "list"

EveryItemCarries(config, key, fields) ==
    (key \in DOMAIN config.d /\ config.d[key].type = "list") =>
        \A k \in 1..Len(config.d[key].items) :
            /\ config.d[key].items[k].type = "dict"
            /\ \A f \in fields : f \in DOMAIN config.d[key].items[k].d

\* the shape the operation table asks of a launch config
ConfigAcceptable(config) ==
    /\ config.type = "dict"
    /\ "region_name" \in DOMAIN config.d
    /\ \A key \in {"ssh_key_names", "file_system_names", "file_system_mounts", "tags"} :
          ListTypedWhenPresent(config, key)
    /\ EveryItemCarries(config, "file_system_mounts", {"mount_point", "file_system_id"})
    /\ EveryItemCarries(config, "tags", {"key", "value"})

\* C13: launch_instance sends a request only if config supplies region_name,
\* each of the four list fields is a list when present, every mount has
\* mount_point and file_system_id and every tag has key and value; otherwise it
\* raises the invalid-argument error and sends nothing.
C13_LaunchSendsOnlyWithValidConfig ==
    pcall.op = "launch_instance" =>
        IF ConfigAcceptable(pcall.config) THEN Len(http) = 1 ELSE RejectedLocally

C13_Witness ==
    /\ pcall.op = "launch_instance"
    /\ pcall.config.type = "dict"
    /\ "region_name" \in DOMAIN pcall.config.d
    /\ "file_system_mounts" \in DOMAIN pcall.config.d
    /\ pcall.config.d["file_system_mounts"] =
           PyList(<<StrDict({"mount_point", "file_system_id"}), StrDict({"mount_point"})>>)
    /\ RejectedLocally

\* the call breaks the input constraint the operation table gives for it
TableConstraintViolated ==
    \/ /\ pcall.op \in {"retrieve_instance_details", "update_instance_details",
                        "restart_instance", "terminate_instance"}
       /\ IsEmptyString(pcall.instance_id)
    \/ pcall.op = "update_instance_details" /\ ~NameAcceptable(pcall.updates)
    \/ /\ pcall.op = "launch_instance"
       /\ IsEmptyString(pcall.instance_type) \/ ~ConfigAcceptable(pcall.config)
    \/ /\ pcall.op = "add_ssh_key"
       /\ IsEmptyString(pcall.name) \/ IsEmptyString(pcall.public_key)
    \/ pcall.op = "delete_ssh_key" /\ IsEmptyString(pcall.key_id)

\* C14: whenever a call breaks its operation's input constraint (an empty
\* instance id for get or update, an empty instance_type for launch, ...) no
\* HTTP request is sent.
C14_MalformedCallsSendNothing == TableConstraintViolated => NoRequestSent

EmptyArgumentCall ==
    \/ pcall.op \in {"restart_instance", "terminate_instance"} /\ IsEmptyString(pcall.instance_id)
    \/ pcall.op = "delete_ssh_key" /\ IsEmptyString(pcall.key_id)
    \/ /\ pcall.op = "add_ssh_key"
       /\ IsEmptyString(pcall.name) \/ IsEmptyString(pcall.public_key)

\* C15: restart_instance, terminate_instance and delete_ssh_key with an empty
\* id, and add_ssh_key with an empty name or an empty public key, raise the
\* invalid-argument error and send no request.
C15_EmptyArgumentsRejected == EmptyArgumentCall => RejectedLocally

C15_Witness ==
    /\ pcall.op = "add_ssh_key"
    /\ ~IsEmptyString(pcall.name)
    /\ IsEmptyString(pcall.public_key)
    /\ RejectedLocally

GotNon2xx ==
    /\ Len(http) >= 1
    /\ http[1].resp.kind = "response"
    /\ ~(http[1].resp.status \in 200..299)

\* C16: a call sends at most one request, and a call whose request got a
\* non-2xx response raises the transport error: it returns nothing (terminate
\* and delete do not return true).
C16_OneRequestAndNon2xxAborts ==
    /\ Len(http) <= 1
    /\ GotNon2xx => presult = Raised("HTTPStatusError")

C16_Witness ==
    /\ pcall.op = "terminate_instance"
    /\ GotNon2xx
    /\ http[1].resp.status = 500
    /\ presult.kind = "raise"

(* ----------------- properties of check_training_status ------------------ *)
StatusRunning == tool = "status"

\* the probes of kind cmd made for the machine at position p
ProbeEntries(p, cmd) == {k \in 1..Len(ops) : ops[k].m = p /\ ops[k].cmd = cmd}

AllProbesReturned(p) ==
    \A cmd \in {"ps", "ls", "tail"} :
        \E k \in ProbeEntries(p, cmd) : ops[k].rc \in {"exit0", "nonzero"}

SomeProbeRaised(p) ==
    \E k \in 1..Len(ops) : ops[k].m = p /\ ~(ops[k].rc \in {"exit0", "nonzero"})

\* the process probe exited 0 and printed a line naming the training tool
ProcessMatched(p) ==
    \E k \in ProbeEntries(p, "ps") : ops[k].rc = "exit0" /\ ops[k].out = ProcessListing

\* no later position handled so far holds the same address: the record stored
\* under the address is the one of position p
RecordIsOf(p) == \A q \in (p + 1)..(i - 1) : MachineAt(q) # MachineAt(p)

StatusRecord(p) == results.machine_status[MachineAt(p)]

\* C17: a machine whose three probes all returned is reported running exactly
\* when the process probe exited 0 with the tool's name in its output, and
\* completed_or_stopped otherwise, whatever the other two probes returned.
C17_RunningIffProcessProbeMatched ==
    StatusRunning =>
        \A p \in 0..(i - 1) :
            (AllProbesReturned(p) /\ RecordIsOf(p)) =>
                /\ StatusRecord(p).success
                /\ StatusRecord(p).status =
                       IF ProcessMatched(p) THEN "running" ELSE "completed_or_stopped"

C17_Witness ==
    /\ StatusRunning /\ tpc = "done"
    /\ machine_ips = <<"10.0.0.1", "10.0.0.2">>
    /\ StatusRecord(0).success /\ StatusRecord(1).success
    /\ StatusRecord(0).status = "running"
    /\ StatusRecord(0).output_files = "Directory not found"
    /\ StatusRecord(0).recent_logs = "No log file found"
    /\ StatusRecord(1).status = "completed_or_stopped"
    /\ \E k \in ProbeEntries(1, "ps") : ops[k].rc = "exit0" /\ ops[k].out = ""

\* C18: a machine one of whose probes raised or timed out gets a record with
\* success = false and an error detail, and when the call returns every
\* machine of the list has been probed and has a record.
C18_ProbeFailureIsolated ==
    StatusRunning =>
        /\ \A p \in 0..(i - 1) :
              (SomeProbeRaised(p) /\ RecordIsOf(p)) =>
                  /\ ~StatusRecord(p).success
                  /\ "error" \in DOMAIN StatusRecord(p)
        /\ tpc = "done" =>
              \A p \in 0..(Len(machine_ips) - 1) :
                  /\ ProbeEntries(p, "ps") # {}
                  /\ MachineAt(p) \in DOMAIN results.machine_status

C18_Witness ==
    /\ StatusRunning /\ tpc = "done"
    /\ machine_ips = <<"10.0.0.1", "10.0.0.2">>
    /\ \E k \in ProbeEntries(0, "ls") : ops[k].rc = "TimeoutExpired"
    /\ ~StatusRecord(0).success
    /\ StatusRecord(1).success

(* ---------------------- properties of the config ------------------------ *)
ConfigBuilt == tool = "launch" /\ "config_used" \in DOMAIN results

\* the caller's additional_config as a mapping (None and {} add nothing)
CallerConfig ==
    IF args.additional_config.type = "dict" THEN args.additional_config.d ELSE EmptyDict

DefaultKeys ==
    {"model_name_or_path", "stage", "do_train", "finetuning_type", "dataset",
     "cutoff_len", "output_dir", "overwrite_output_dir", "per_device_train_batch_size",
     "gradient_accumulation_steps", "learning_rate", "num_train_epochs",
     "lr_scheduler_type", "warmup_ratio", "bf16", "save_steps", "logging_steps",
     "plot_loss", "ddp_timeout"}
LoraKeys == {"lora_target", "lora_rank", "lora_alpha", "lora_dropout"}

\* the keys the defaults and the conditional blocks contribute
BlockKeys ==
    DefaultKeys
    \cup (IF args.template \in {None, ""} THEN {} ELSE {"template"})
    \cup (IF args.training_type = "lora" THEN LoraKeys ELSE {})
    \cup (IF args.use_flash_attention THEN {"flash_attn"} ELSE {})

\* the value the defaults or a conditional block give key k
BlockValue(k) ==
    CASE k = "model_name_or_path" -> args.model_id
      [] k = "stage" -> args.stage
      [] k = "do_train" -> TRUE
      [] k = "finetuning_type" -> args.training_type
      [] k = "dataset" -> args.dataset_name
      [] k = "cutoff_len" -> args.max_length
      [] k = "output_dir" -> args.output_dir
      [] k = "overwrite_output_dir" -> TRUE
      [] k = "per_device_train_batch_size" -> args.batch_size
      [] k = "gradient_accumulation_steps" -> args.gradient_accumulation_steps
      [] k = "learning_rate" -> args.learning_rate
      [] k = "num_train_epochs" -> args.num_epochs
      [] k = "lr_scheduler_type" -> args.lr_scheduler_type
      [] k = "warmup_ratio" -> args.warmup_ratio
      [] k = "bf16" -> args.bf16
      [] k = "save_steps" -> args.save_steps
      [] k = "logging_steps" -> args.logging_steps
      [] k = "plot_loss" -> TRUE
      [] k = "ddp_timeout" -> DdpTimeout
      [] k = "template" -> args.template
      [] k = "lora_target" -> "all"
      [] k = "lora_rank" -> args.lora_rank
      [] k = "lora_alpha" -> args.lora_alpha
      [] k = "lora_dropout" -> args.lora_dropout
      [] k = "flash_attn" -> "fa2"

\* C20: config_used is the merge of the defaults, the conditional blocks
\* (template only when given, the LoRA block iff training_type is lora,
\* flash_attn iff use_flash_attention) and additional_config, the latter
\* winning: every key of additional_config has the caller's value, every other
\* key the default or conditional value, and there are no other keys.
C20_ConfigMergePrecedence ==
    ConfigBuilt =>
        /\ DOMAIN results.config_used = BlockKeys \cup DOMAIN CallerConfig
        /\ \A k \in DOMAIN CallerConfig : results.config_used[k] = CallerConfig[k]
        /\ \A k \in BlockKeys \ DOMAIN CallerConfig : results.config_used[k] = BlockValue(k)

C20_Witness ==
    /\ ConfigBuilt /\ tpc = "done"
    /\ args.training_type = "full"
    /\ args.use_flash_attention
    /\ args.template = "llama3"
    /\ "flash_attn" \in DOMAIN CallerConfig
    /\ results.config_used["flash_attn"] = "disabled"
    /\ results.config_used["template"] = "llama3"
    /\ ~("lora_rank" \in DOMAIN results.config_used)

(* ------------------- properties of the serializer ----------------------- *)
\* how a YAML reader resolves the scalar text of a value: a double-quoted
\* scalar is a string; a plain scalar is a boolean, null or an integer when
\* it has that form, and a string otherwise
PlainBooleans ==
    {<<"t", "r", "u", "e">>, <<"T", "r", "u", "e">>, <<"T", "R", "U", "E">>,
     <<"f", "a", "l", "s", "e">>, <<"F", "a", "l", "s", "e">>,
     <<"F", "A", "L", "S", "E">>}
PlainNulls ==
    {<<>>, <<"~">>, <<"n", "u", "l", "l">>, <<"N", "u", "l", "l">>,
     <<"N", "U", "L", "L">>}
IsPlainInteger(text) ==
    LET digits == IF Len(text) > 0 /\ text[1] \in {"-", "+"} THEN Tail(text) ELSE text
    IN  Len(digits) > 0 /\ \A k \in 1..Len(digits) : IsDigitChar(digits[k])
IsQuotedText(text) == Len(text) >= 2 /\ text[1] = "\"" /\ text[Len(text)] = "\""

YamlTypeOf(text) ==
    IF IsQuotedText(text) THEN "str"
    ELSE IF text \in PlainBooleans THEN "bool"
    ELSE IF text \in PlainNulls THEN "null"
    ELSE IF IsPlainInteger(text) THEN "int"
    ELSE "str"

YamlStringOf(text) == IF IsQuotedText(text) THEN SubSeq(text, 2, Len(text) - 1) ELSE text

Formatted == ytext # NotFormatted

\* C19: the text of a string value is read back by a YAML reader as the same
\* string (strings that look like a boolean, null or an integer, signed ones
\* such as "-5" included, are quoted), and booleans are rendered true/false.
C19_StringsReadBackAsStrings ==
    Formatted =>
        /\ yvalue.type = "str" =>
              /\ YamlTypeOf(ytext) = "str"
              /\ YamlStringOf(ytext) = yvalue.chars
        /\ yvalue.type = "bool" =>
              ytext = IF yvalue.val THEN <<"t", "r", "u", "e">> ELSE <<"f", "a", "l", "s", "e">>

(* ------------------ properties of the machine configs ------------------- *)
\* the output directory the caller asked for: additional_config's, else the parameter
BaseOutputDir ==
    IF "output_dir" \in DOMAIN CallerConfig THEN CallerConfig["output_dir"] ELSE args.output_dir

\* the config serialized for the machine of the k-th operation differs from
\* base in output_dir only, which is the directory derived for that machine
SpecializedFrom(k, base) ==
    /\ DOMAIN ops[k].config = DOMAIN base
    /\ \A key \in DOMAIN base \ {"output_dir"} : ops[k].config[key] = base[key]
    /\ ops[k].config["output_dir"] =
           MachineOutputDir(BaseOutputDir, ops[k].m, MachineAt(ops[k].m))

\* C21: per-machine processing never changes the base config: the config
\* serialized for a machine equals the base config on every key but
\* output_dir, and config_used stays the config built before the first
\* machine, with the base output_dir.
C21_BaseConfigNotMutated ==
    ConfigBuilt =>
        /\ results.config_used = BuildConfig(args)
        /\ results.config_used["output_dir"] = BaseOutputDir
        /\ \A k \in 1..Len(ops) :
              ops[k].op = "mktemp" => SpecializedFrom(k, BuildConfig(args))

C21_Witness ==
    /\ ConfigBuilt /\ tpc = "done"
    /\ Len(machine_ips) = 2
    /\ "output_dir" \in DOMAIN CallerConfig
    /\ \E k \in 1..Len(ops) : ops[k].op = "mktemp" /\ ops[k].m = 1 /\ ops[k].rc = "ok"
    /\ results.config_used["output_dir"] = "saves/other"

(* --------------------- properties of the launch steps ------------------- *)
LaunchRunning == tool = "launch"

\* the k-th operation is the training command of position m
TrainingCommandAt(k, m) == ops[k].op = "ssh" /\ ops[k].m = m

\* C22: the training command goes to a machine only after the copy to that
\* machine, in this call, returned exit status 0; a machine whose copy exited
\* non-zero or raised gets no training command in the call.
C22_TrainingOnlyAfterCopy ==
    LaunchRunning =>
        \A m \in Positions :
            /\ \A k \in 1..Len(ops) :
                  TrainingCommandAt(k, m) =>
                      \E j \in 1..(k - 1) :
                          ops[j].op = "scp" /\ ops[j].m = m /\ ops[j].rc = "exit0"
            /\ (\E j \in 1..Len(ops) :
                    ops[j].op = "scp" /\ ops[j].m = m /\ ops[j].rc # "exit0")
                  => ~\E k \in 1..Len(ops) : TrainingCommandAt(k, m)

C22_Witness ==
    /\ LaunchDone
    /\ Len(machine_ips) = 3
    /\ \E j \in 1..Len(ops) : ops[j].op = "scp" /\ ops[j].m = 0 /\ ops[j].rc = "nonzero"
    /\ \E j \in 1..Len(ops) : ops[j].op = "scp" /\ ops[j].m = 1 /\ ops[j].rc = "timeout"
    /\ \E k \in 1..Len(ops) : TrainingCommandAt(k, 2) /\ ops[k].rc = "spawned"

\* the copy to position m ended with outcome rc
CopyEndedAt(m, rc) ==
    \E k \in 1..Len(ops) : ops[k].op = "scp" /\ ops[k].m = m /\ ops[k].rc = rc

LaunchRecord(m) == results.machine_results[MachineAt(m)]

\* the record under the address of position m is the one stored for m
LaunchRecordIsOf(m) == m < i /\ RecordIsOf(m)

\* C23: a copy that exits non-zero or times out leaves a record
\* with success = false, the step tag file_transfer and the transfer error.
C23_CopyFailureTaggedFileTransfer ==
    LaunchRunning =>
        \A m \in Positions :
            (LaunchRecordIsOf(m) /\ (CopyEndedAt(m, "nonzero") \/ CopyEndedAt(m, "timeout"))) =>
                /\ ~LaunchRecord(m).success
                /\ LaunchRecord(m).step = "file_transfer"
                /\ LaunchRecord(m).error = "Failed to copy config file"

(* ------------------- properties of the three tools ---------------------- *)
ToolRunning == tool \in {"launch", "status", "stop"}

\* the per-machine mapping of the result, whatever the tool
ToolRecords ==
    IF tool = "status" THEN results.machine_status
    ELSE IF "machine_results" \in DOMAIN results THEN results.machine_results
    ELSE EmptyDict

\* the SCP and SSH operations among the operations of the call
NetOps == {k \in 1..Len(ops) : ops[k].op \in {"scp", "ssh"}}

\* operations follow the list order, none is for a position beyond the one
\* being handled, and every position before it has its record
HandledInListOrder ==
    /\ \A k \in NetOps : ops[k].m <= i /\ ops[k].m < Len(machine_ips)
    /\ \A j, k \in NetOps : j < k => ops[j].m <= ops[k].m
    /\ \A q \in 0..(i - 1) : MachineAt(q) \in DOMAIN ToolRecords

\* the ssh processes of the call that have not ended
AliveProcs == {p \in DOMAIN procs : procs[p].state # "exited"}

\* while the process of position p is alive no operation of a later position exists
NoOverlap == \A p \in AliveProcs : \A k \in NetOps : ops[k].m <= p

\* C24 (as stated): machines are handled strictly in list order, and
\* operations of two machines are never in flight at the same time.
C24_StrictlySequential == ToolRunning => (HandledInListOrder /\ NoOverlap)

\* C24 (amended): machines are handled in list order and every blocking
\* operation ends before the next starts; the only operations that stay in
\* flight are the training launches of a launch call, each of a position
\* whose record is already stored, and these do overlap later machines.
C24_SequentialButForDetachedLaunches ==
    ToolRunning =>
        /\ HandledInListOrder
        /\ \A p \in DOMAIN procs :
              /\ tool = "launch"
              /\ p < i
              /\ \E k \in NetOps : ops[k].op = "ssh" /\ ops[k].m = p /\ ops[k].rc = "spawned"

C24_Witness ==
    /\ tool = "launch"
    /\ 0 \in AliveProcs
    /\ \E k \in NetOps : ops[k].op = "scp" /\ ops[k].m = 1
    /\ MachineAt(0) \in DOMAIN ToolRecords

(* ---------------------- properties of the detaching --------------------- *)
\* every spawned launch has its record, success with training_started,
\* whatever became of the process
SpawnedIsRecordedStarted ==
    \A p \in DOMAIN procs :
        /\ p < i
        /\ RecordIsOf(p) =>
              /\ LaunchRecord(p).success
              /\ LaunchRecord(p).status = "training_started"

\* C25: a launch call whose copies all return or time out eventually returns,
\* whether or not a training process it started ever ends; and a machine is
\* recorded success = true, training_started, as soon as its ssh process is
\* spawned, before the remote command is known to be accepted.
C25_LaunchReturnsWithoutWaiting ==
    /\ [](LaunchRunning => SpawnedIsRecordedStarted)
    /\ (LaunchRunning ~> LaunchDone)

C25_Witness ==
    /\ LaunchDone
    /\ Len(machine_ips) = 2
    /\ DOMAIN procs = {0, 1}
    /\ procs[0].state = "spawned"
    /\ procs[1].state = "training"
    /\ LaunchRecord(0).status = "training_started"
    /\ results.successful_machines = 2

(* ---------------- properties of a status call after a launch ------------ *)
StatusAfterLaunch == tool = "status" /\ args # EmptyDict

\* the probes that name a directory
DirProbes == {k \in 1..Len(ops) : ops[k].cmd \in {"ls", "tail"}}

\* the config the launch copied to the machine of position p, if it did
CopiedConfigKey(p) == <<MachineAt(p), RemoteConfigPath(p)>>

ProbesMatchLaunch ==
    \A k \in DirProbes :
        CopiedConfigKey(ops[k].m) \in DOMAIN remote =>
            ops[k].dir = remote[CopiedConfigKey(ops[k].m)]["output_dir"]

\* C26 (as stated): a status call with the machine list and the output_dir
\* argument of an earlier launch probes, at every position, the output
\* directory the launch wrote into that machine's config.
C26_StatusProbesLaunchDirectory ==
    (StatusAfterLaunch /\ output_dir = args.output_dir) => ProbesMatchLaunch

(* ------------------- properties of the derived directories -------------- *)
Derived == dnames # NotDerived

\* C27: the derived output directories of two distinct positions of one
\* machine list differ, whatever the two addresses are (the same address,
\* or addresses that differ only in '.' versus '_').
C27_DerivedDirsUnique ==
    (Derived /\ dquery.idx_a # dquery.idx_b) => dnames[1] # dnames[2]

C27_Witness ==
    /\ Derived
    /\ dquery.idx_a = 1 /\ dquery.idx_b = 11
    /\ dquery.addr_a = <<".">> /\ dquery.addr_b = <<"_">>
    /\ Len(dnames[1]) + 1 = Len(dnames[2])

(* ------------------- properties of the result mapping ------------------- *)
\* a call of one of the three tools returned a result with per-machine records
ToolReturnedRecords ==
    ToolRunning /\ tpc = "done" /\ "total_machines" \in DOMAIN results

\* C28 (as stated): for launch, check_status and stop and for any machine
\* list, the per-machine mapping of the result holds as many records as
\* total_machines.
C28_OneRecordPerEntry ==
    ToolReturnedRecords =>
        Cardinality(DOMAIN ToolRecords) = results.total_machines

\* C28 (amended): total_machines is the length of the machine list, and the
\* per-machine mapping holds one record per distinct address of the list
\* (the record of the address's last position): as many records as
\* total_machines exactly when no address occurs twice.
C28_OneRecordPerDistinctAddress ==
    ToolReturnedRecords =>
        /\ results.total_machines = Len(machine_ips)
        /\ DOMAIN ToolRecords = AddressesOf(machine_ips)
        /\ (Cardinality(DOMAIN ToolRecords) = results.total_machines) = Distinct(machine_ips)

\* a launch of [A, A] whose first position failed and whose second started
C28_Witness ==
    /\ LaunchDone /\ ToolReturnedRecords
    /\ machine_ips = <<"10.0.0.1", "10.0.0.1">>
    /\ results.total_machines = 2
    /\ Cardinality(DOMAIN ToolRecords) = 1
    /\ results.failed_machines = 1
    /\ ToolRecords["10.0.0.1"].success

(* ------------------- properties of interleaved startup runs ------------- *)
\* the key records the runs added to the account of provider p so far
AddedKeys(p) ==
    LET Adds(s) == {k \in 1..Len(calls[s]) :
                       /\ calls[s][k].provider = p
                       /\ calls[s][k].call = "add_ssh_key"
                       /\ calls[s][k].rc \in {"ok", "lost"}}
    IN  Cardinality(UNION {{<<s, k>> : k \in Adds(s)} : s \in Servers})

\* the account as the first run found it: records are only ever appended
AccountAtStart(p) == SubSeq(account[p], 1, Len(account[p]) - AddedKeys(p))

\* C29: when the steps of two startup runs interleave against an account
\* that initially lacks the shared key, the account never holds more than
\* one key record with the shared name.
C29_InterleavedRunsAddOneKey ==
    \A p \in ProviderNames :
        ~HoldsSharedKey(AccountAtStart(p)) =>
            CountNamed(account[p], settings.common_ssh_key_name) <= 1

(* ------------------- properties of the remote config file --------------- *)
\* the config this call serialized for position p
OwnConfig(p) == Specialize(results.config_used, p, MachineAt(p))

\* C30: the training process a launch call started at position p reads the
\* config this same call copied to that machine, whatever another launch
\* call targeting the same machine at the same position does meanwhile.
C30_TrainingReadsOwnConfig ==
    tool = "launch" =>
        \A p \in DOMAIN procs :
            procs[p].state = "training" => procs[p].config = OwnConfig(p)

====
